---- MODULE Spec2Model ----
(***************************************************************************)
(* virsnap: the VM power-state transition engine (VM.Transition), the      *)
(* retention pruning of "clean", and the per-VM orchestration of "create"  *)
(* and "export", modelled as state machines over a hypervisor (libvirt)    *)
(* whose domains change state on request, on their own, and by the hand of *)
(* third parties.                                                          *)
(***************************************************************************)
EXTENDS Integers, Sequences, FiniteSets, TLC

\* ------------------------------------------------------------------------
\* libvirt.DomainState, as named by GetStateString
\* ------------------------------------------------------------------------
NOSTATE     == "DOMAIN_NOSTATE"
RUNNING     == "DOMAIN_RUNNING"
BLOCKED     == "DOMAIN_BLOCKED"
PAUSED      == "DOMAIN_PAUSED"
SHUTDOWN    == "DOMAIN_SHUTDOWN"
SHUTOFF     == "DOMAIN_SHUTOFF"
CRASHED     == "DOMAIN_CRASHED"
PMSUSPENDED == "DOMAIN_PMSUSPENDED"

DomainStates ==
  {NOSTATE, RUNNING, BLOCKED, PAUSED, SHUTDOWN, SHUTOFF, CRASHED, PMSUSPENDED}

\* the targets Transition accepts (its argument check)
AllowedTargets == {RUNNING, SHUTOFF, PMSUSPENDED, PAUSED}

\* ------------------------------------------------------------------------
\* Bounds of the model
\* ------------------------------------------------------------------------
\* number of domains the hypervisor holds
NumVMs == 2
\* largest timeout (minutes) a command line passes
MaxTimeout == 1
\* state changes made by third parties during one run
MaxInterference == 1
\* hypervisor calls that fail for reasons of their own during one run
MaxFaults == 1
\* seconds one iteration of a polling loop takes beyond its sleep
PollLatency == 5
\* nesting of Transition calls the model follows
MaxDepth == 4
\* most snapshots the hypervisor holds of one domain
MaxSnaps == 3
\* largest keep count (-k) a command line passes
MaxKeep == 3
\* most regular expressions a call of a listing primitive is given
MaxPatterns == 2
\* most domains, or snapshots of a domain, a listing primitive enumerates
MaxEntities == 3
\* retries of CreateSnapshot that are counted
MaxRetries == 2

\* time.Sleep(5 * time.Second) of every polling loop
SleepSeconds == 5
\* number of graceful shutdown rounds: for i := 0; i < 3; i++
ShutdownRounds == 3

VMs == 1..NumVMs
Timeouts == 0..MaxTimeout

VARIABLES
  vmState,     \* hypervisor: the power state of every domain
  pending,     \* hypervisor: domains with an accepted, not yet executed shutdown request
  interf,      \* number of third-party state changes so far
  faults,      \* number of failed hypervisor calls (for reasons of their own) so far
  stack,       \* the activation records of Transition, innermost last
  ret,         \* the value the innermost finished Transition returned, until its caller takes it
  calls,       \* history: the state-changing hypervisor calls issued, in order
  queries,     \* history: the number of GetState calls issued
  warns,       \* history: the warnings Transition logged, in order
  hpc,         \* API driver: "idle", "called", "restoring" or "done"
  results,     \* API driver: the finished top-level calls, in order
  build,       \* command: which revision of the command runs
  opc,         \* command: the statement the command function is at
  flags,       \* command: the values of the command line flags
  vms,         \* command: the domains ListMatchingVMs returned, in order
  idx,         \* command: the position of the range loop in vms
  failed,      \* command: the flag that makes the command exit with an error
  formerState, \* command: the previous state the first Transition returned
  deferred,    \* command: the calls deferred to the return of the command function
  exitCode,    \* command: "none" while it runs, then the exit status of the process
  hist,        \* history: per domain, what the command did to it
  snaps,       \* hypervisor: the snapshots of the domain being cleaned
  listing,     \* clean: the snapshots ListMatchingSnapshots returned
  ci,          \* clean: the position of the deletion loop in listing
  cleanLog,    \* history: what clean did, and to the domain it is at
  lm,          \* the call of ListMatchingVMs / ListMatchingSnapshots under way
  snapCall     \* the call of CreateSnapshot under way

\* the variables of the command that called Transition
cmdVars == <<build, opc, flags, vms, idx, failed, formerState, deferred,
             exitCode, hist, snaps, listing, ci, cleanLog>>

\* the variables of the listing primitives and of CreateSnapshot
virtVars == <<lm, snapCall>>

\* the variables of whoever called Transition
callerVars == <<hpc, results, cmdVars, virtVars>>

vars == <<vmState, pending, interf, faults, stack, ret,
          calls, queries, warns, callerVars>>

\* the variables of the program (everything but the hypervisor's)
progVars == <<stack, ret, calls, queries, warns, callerVars>>

\* no return value is waiting for a caller
NoRet == [state |-> NOSTATE, err |-> "none", site |-> 0, observed |-> "none",
          vm |-> 0, to |-> NOSTATE, force |-> FALSE, depth |-> 0,
          reported |-> "none", polled |-> "none", lastSeen |-> "none",
          prev |-> "none", mid |-> "none", requests |-> 0,
          lastReq |-> "none", destroys |-> 0, timeout |-> 0]

\* the flags of a command that was given none
NoFlags == [shutdown |-> FALSE, force |-> FALSE, timeout |-> 0,
            snapshot |-> FALSE, keep |-> 0, assumeYes |-> FALSE]

\* nothing was done to any domain yet
NoHist == [v \in VMs |-> [down |-> "none", former |-> "none",
                          restores |-> <<>>, restored |-> "none",
                          snapshot |-> "none", snapAt |-> "none",
                          exported |-> "none", freed |-> 0]]

\* clean did nothing yet
NoCleanLog == [visited |-> <<>>, aborted |-> <<>>, store |-> <<>>,
               listed |-> <<>>, decisions |-> <<>>, done |-> "no"]

\* no listing primitive is called
NoListing ==
  [pc |-> "none", kind |-> "none", caller |-> "none", regexes |-> <<>>,
   store |-> <<>>, instances |-> <<>>, i |-> 0, unreadable |-> {},
   matched |-> <<>>, hci |-> <<>>, held |-> {}, err |-> "none",
   result |-> <<>>]

\* CreateSnapshot is not called
NoSnapshotCall ==
  [pc |-> "none", store |-> <<>>, candidate |-> <<>>, retries |-> 0,
   lastQuery |-> [name |-> <<>>, found |-> -1], inUse |-> {}, submitted |-> <<>>, err |-> "none",
   held |-> {}]

\* no command runs: the library is called through the API
NoCommand ==
  /\ lm = NoListing /\ snapCall = NoSnapshotCall
  /\ build = "api" /\ opc = "none" /\ flags = NoFlags
  /\ vms = <<>> /\ idx = 0 /\ failed = FALSE /\ formerState = NOSTATE
  /\ deferred = <<>> /\ exitCode = "none" /\ hist = NoHist
  /\ snaps = <<>> /\ listing = <<>> /\ ci = 0 /\ cleanLog = NoCleanLog

\* the domains the program is working on: the hypervisor's other domains
\* change unobserved
ActiveVMs ==
  IF stack # <<>> THEN {stack[Len(stack)].vm}
  ELSE IF opc \in {"snap", "export"} THEN {vms[idx]}
  ELSE {}

\* ------------------------------------------------------------------------
\* The hypervisor (libvirt) behind vm.Instance
\* ------------------------------------------------------------------------
\* the states in which the hypervisor accepts an operation
ValidFrom(op) ==
  CASE op = "Suspend"   -> {RUNNING, BLOCKED}
    [] op = "Resume"    -> {PAUSED}
    [] op = "PMSuspend" -> {RUNNING, BLOCKED}
    [] op = "PMWakeup"  -> {PMSUSPENDED}
    [] op = "Create"    -> {SHUTOFF, CRASHED}
    [] op = "Shutdown"  -> {RUNNING, BLOCKED, PAUSED, SHUTDOWN, PMSUSPENDED}
    [] op = "Destroy"   -> {RUNNING, BLOCKED, PAUSED, SHUTDOWN, PMSUSPENDED, CRASHED}

\* the state an accepted operation leaves the domain in
EffectOf(op, s) ==
  CASE op = "Suspend"   -> PAUSED
    [] op = "Resume"    -> RUNNING
    [] op = "PMSuspend" -> PMSUSPENDED
    [] op = "PMWakeup"  -> RUNNING
    [] op = "Create"    -> RUNNING
    [] op = "Shutdown"  -> s
    [] op = "Destroy"   -> SHUTOFF

\* the outcomes of one state-changing call: "ok", "invalid" (libvirt's
\* ERR_OPERATION_INVALID, the domain is not in a state for it) or "error"
CallOutcomes(vm, op) ==
  (IF vmState[vm] \in ValidFrom(op) THEN {"ok"} ELSE {"invalid"})
    \cup (IF faults < MaxFaults THEN {"error"} ELSE {})

\* the hypervisor executes (or refuses) the call; the call is recorded
Hci(vm, op, res) ==
  /\ res \in CallOutcomes(vm, op)
  /\ vmState' = IF res = "ok"
                THEN [vmState EXCEPT ![vm] = EffectOf(op, vmState[vm])]
                ELSE vmState
  /\ pending' = IF res = "ok" /\ op = "Shutdown" THEN pending \cup {vm}
                ELSE IF res = "ok" THEN pending \ {vm}
                ELSE pending
  /\ faults' = IF res = "error" THEN faults + 1 ELSE faults
  /\ calls' = Append(calls, [op |-> op, vm |-> vm, res |-> res])

\* the outcomes of GetState: the domain's state, or a failure, with which
\* libvirt-go hands back the zero DomainState (DOMAIN_NOSTATE)
QueryOutcomes(vm) ==
  {[ok |-> TRUE, state |-> vmState[vm]]}
    \cup (IF faults < MaxFaults THEN {[ok |-> FALSE, state |-> NOSTATE]} ELSE {})

\* as Query, but a failed query is made once more
QueryRetries(vm, q) ==
  /\ q \in QueryOutcomes(vm)
  /\ queries' = IF q.ok THEN queries + 1 ELSE queries + 2
  /\ faults' = IF q.ok THEN faults ELSE faults + 1

Query(vm, q) ==
  /\ q \in QueryOutcomes(vm)
  /\ queries' = queries + 1
  /\ faults' = IF q.ok THEN faults ELSE faults + 1

\* a guest carries out an accepted shutdown request, a domain that is
\* shutting down reaches shutoff, a blocked domain gets its resource
GuestProgress ==
  /\ \E vm \in ActiveVMs :
       \/ /\ vm \in pending
          /\ vmState[vm] \in {RUNNING, BLOCKED}
          /\ \E s \in {SHUTDOWN, SHUTOFF} :
               /\ vmState' = [vmState EXCEPT ![vm] = s]
               /\ pending' = IF s = SHUTOFF THEN pending \ {vm} ELSE pending
       \/ /\ vmState[vm] = SHUTDOWN
          /\ vmState' = [vmState EXCEPT ![vm] = SHUTOFF]
          /\ pending' = pending \ {vm}
       \/ /\ vmState[vm] = BLOCKED
          /\ vmState' = [vmState EXCEPT ![vm] = RUNNING]
          /\ UNCHANGED pending
  /\ UNCHANGED <<interf, faults>>
  /\ UNCHANGED progVars

\* an operator or another tool changes a domain behind the program's back
ThirdParty ==
  /\ interf < MaxInterference
  /\ \E vm \in ActiveVMs, s \in DomainStates \ {NOSTATE} :
       /\ s # vmState[vm]
       /\ vmState' = [vmState EXCEPT ![vm] = s]
       /\ pending' = pending \ {vm}
  /\ interf' = interf + 1
  /\ UNCHANGED faults
  /\ UNCHANGED progVars

\* ------------------------------------------------------------------------
\* VM.Transition(to, forceShutdown, timeout)
\* ------------------------------------------------------------------------
Top == stack[Len(stack)]
Pop == SubSeq(stack, 1, Len(stack) - 1)

\* the activation record of a call of Transition
NewFrame(vm, to, force, timeout) ==
  [vm |-> vm, to |-> to, force |-> force, timeout |-> timeout,
   pc |-> "start", state |-> NOSTATE, observed |-> "none",
   i |-> 0, elapsed |-> 0, newState |-> NOSTATE,
   polled |-> "none", lastSeen |-> "none", requests |-> 0,
   lastReq |-> "none", destroys |-> 0]

\* "return s, e" at source line `line` of the innermost call, whose record is f
ReturnWith(f, s, e, line, prev, mid) ==
  /\ stack' = Pop
  /\ ret' = [state |-> s, err |-> e, site |-> line, observed |-> f.observed,
             vm |-> f.vm, to |-> f.to, force |-> f.force, depth |-> Len(stack),
             reported |-> IF e = "GracefulShutdownTimedOut" THEN f.newState ELSE "none",
             polled |-> f.polled, lastSeen |-> f.lastSeen,
             prev |-> prev, mid |-> mid, requests |-> f.requests,
             lastReq |-> f.lastReq, destroys |-> f.destroys,
             timeout |-> f.timeout]

ReturnFrom(f, s, e, line) == ReturnWith(f, s, e, line, "none", "none")

\* the innermost call goes on at `pc`
Goto(f, pc) ==
  /\ stack' = [stack EXCEPT ![Len(stack)] = [f EXCEPT !.pc = pc]]
  /\ ret' = NoRet

\* the innermost call calls vm.Transition(target, forceShutdown, timeout) and
\* waits at `pc` for its return
CallHop(f, target, pc) ==
  /\ Len(stack) < MaxDepth
  /\ stack' = Append([stack EXCEPT ![Len(stack)] = [f EXCEPT !.pc = pc]],
                     NewFrame(f.vm, target, f.force, f.timeout))
  /\ ret' = NoRet

\* Logger.Warnf("State of VM ... has changed in the meantime ...")
Warn(cond, line) ==
  warns' = IF cond THEN Append(warns, [line |-> line, depth |-> Len(stack)])
           ELSE warns

\* time.Duration(roundSeconds)*time.Second with
\* roundSeconds := 0.33 * float64(timeout*60), in whole seconds
MaxRoundDuration(timeout) == (33 * (timeout * 60)) \div 100

\* time.Duration(timeout)*time.Minute, in seconds
TotalTimeout(timeout) == timeout * 60

\* the switch on (state, to) after the initial state query
DispatchRunning(f) ==
  CASE f.to = RUNNING     -> ReturnFrom(f, f.state, "nil", 70)
    [] f.to = PAUSED      -> Goto(f, "suspend")
    [] f.to = PMSUSPENDED -> Goto(f, "pmsuspend")
    [] f.to = SHUTOFF     ->
         Goto([f EXCEPT !.newState = RUNNING, !.i = 0], "shutdown")

\* as DispatchShutoff, but a crashed domain is reported as shutoff
DispatchShutoffReportsShutoff(f) ==
  IF f.to = SHUTOFF THEN ReturnFrom(f, SHUTOFF, "nil", 193)
  ELSE IF f.to = RUNNING THEN Goto(f, "create")
  ELSE CallHop(f, RUNNING, "hop1")

\* case DOMAIN_CRASHED: fallthrough; case DOMAIN_SHUTOFF
DispatchShutoff(f) ==
  IF f.to = SHUTOFF THEN ReturnFrom(f, f.state, "nil", 193)
  ELSE IF f.to = RUNNING THEN Goto(f, "create")
  ELSE CallHop(f, RUNNING, "hop1")

DispatchShutdown(f) ==
  IF f.to = SHUTOFF THEN Goto([f EXCEPT !.elapsed = 0], "sd_poll")
  ELSE CallHop(f, SHUTOFF, "sd_hop1")

\* as DispatchPaused, but without the check for an already paused domain
DispatchPausedNoSameState(f) ==
  IF f.to = RUNNING THEN Goto(f, "resume")
  ELSE CallHop(f, RUNNING, "hop1")

DispatchPaused(f) ==
  IF f.to = PAUSED THEN ReturnFrom(f, f.state, "nil", 315)
  ELSE IF f.to = RUNNING THEN Goto(f, "resume")
  ELSE CallHop(f, RUNNING, "hop1")

DispatchPMSuspended(f) ==
  IF f.to = PMSUSPENDED THEN ReturnFrom(f, f.state, "nil", 362)
  ELSE IF f.to = RUNNING THEN Goto(f, "pmwakeup")
  ELSE CallHop(f, RUNNING, "hop1")

DispatchBlocked(f) == Goto([f EXCEPT !.elapsed = 0], "bl_poll")

\* as Dispatch, but without the fallthrough of the Crashed case: a crashed
\* domain is in no state to start from
DispatchCrashedApart(f) ==
  CASE f.state = RUNNING             -> DispatchRunning(f)
    [] f.state = SHUTOFF             -> DispatchShutoff(f)
    [] f.state = SHUTDOWN            -> DispatchShutdown(f)
    [] f.state = PAUSED              -> DispatchPaused(f)
    [] f.state = PMSUSPENDED         -> DispatchPMSuspended(f)
    [] f.state = BLOCKED             -> DispatchBlocked(f)
    [] OTHER -> ReturnFrom(f, f.state, "InvalidVMState", 459)

\* as Dispatch, but a domain in no known state is taken for one that is
\* shut off
DispatchNoStateAsShutoff(f) ==
  CASE f.state = RUNNING             -> DispatchRunning(f)
    [] f.state = SHUTDOWN            -> DispatchShutdown(f)
    [] f.state = PAUSED              -> DispatchPaused(f)
    [] f.state = PMSUSPENDED         -> DispatchPMSuspended(f)
    [] f.state = BLOCKED             -> DispatchBlocked(f)
    [] OTHER                         -> DispatchShutoff(f)

Dispatch(f) ==
  CASE f.state = RUNNING             -> DispatchRunning(f)
    [] f.state \in {CRASHED, SHUTOFF} -> DispatchShutoff(f)
    [] f.state = SHUTDOWN            -> DispatchShutdown(f)
    [] f.state = PAUSED              -> DispatchPaused(f)
    [] f.state = PMSUSPENDED         -> DispatchPMSuspended(f)
    [] f.state = BLOCKED             -> DispatchBlocked(f)
    [] OTHER -> ReturnFrom(f, f.state, "InvalidVMState", 459)

\* the argument check
TargetAllowed(to) == to \in AllowedTargets

\* as TransitionEnter, but the state is queried before the argument check
TransitionEnterQueriesFirst ==
  /\ stack # <<>> /\ Top.pc = "start" /\ ret = NoRet
  /\ \E q \in QueryOutcomes(Top.vm) :
       /\ Query(Top.vm, q)
       /\ IF ~TargetAllowed(Top.to)
          THEN ReturnFrom(Top, NOSTATE, "InvalidTargetState", 50)
          ELSE IF ~q.ok
          THEN ReturnFrom(Top, NOSTATE, "StateQueryFailed", 58)
          ELSE Dispatch([Top EXCEPT !.state = q.state,
                                    !.observed = q.state,
                                    !.lastSeen = q.state])
  /\ UNCHANGED <<vmState, pending, interf, calls, warns, callerVars>>

\* entry of Transition: argument check, initial state query, dispatch
TransitionEnter ==
  /\ stack # <<>> /\ Top.pc = "start" /\ ret = NoRet
  /\ IF ~TargetAllowed(Top.to)
     THEN /\ ReturnFrom(Top, NOSTATE, "InvalidTargetState", 50)
          /\ UNCHANGED <<queries, faults>>
     ELSE \E q \in QueryOutcomes(Top.vm) :
            /\ Query(Top.vm, q)
            /\ IF ~q.ok
               THEN ReturnFrom(Top, NOSTATE, "StateQueryFailed", 58)
               ELSE Dispatch([Top EXCEPT !.state = q.state,
                                         !.observed = q.state,
                                         !.lastSeen = q.state])
  /\ UNCHANGED <<vmState, pending, interf, calls, warns, callerVars>>

\* the transitions made of one hypervisor call
SingleCall(pc, op, okLine, errLine) ==
  /\ stack # <<>> /\ Top.pc = pc
  /\ \E res \in CallOutcomes(Top.vm, op) :
       /\ Hci(Top.vm, op, res)
       /\ IF res = "ok" THEN ReturnFrom(Top, Top.state, "nil", okLine)
          ELSE ReturnFrom(Top, Top.state, "TransitionFailed", errLine)
  /\ UNCHANGED <<interf, queries, warns, callerVars>>

Suspend   == SingleCall("suspend", "Suspend", 80, 78)
PMSuspend == SingleCall("pmsuspend", "PMSuspend", 91, 89)
Create    == SingleCall("create", "Create", 202, 200)
Resume    == SingleCall("resume", "Resume", 325, 323)
PMWakeup  == SingleCall("pmwakeup", "PMWakeup", 372, 370)

\* as OnShutdownResult, but every failed shutdown request is an error
OnShutdownResultStrict(f, res) ==
  CASE res = "ok" -> Goto([f EXCEPT !.elapsed = 0], "sh_poll")
    [] OTHER      -> ReturnFrom(f, RUNNING, "TransitionFailed", 123)

\* Running -> Shutoff: the outcome of vm.Instance.Shutdown() in a round
OnShutdownResult(f, res) ==
  CASE res = "ok"      -> Goto([f EXCEPT !.elapsed = 0], "sh_poll")
    [] res = "invalid" -> ReturnFrom(f, RUNNING, "nil", 117)
    [] OTHER           -> ReturnFrom(f, RUNNING, "TransitionFailed", 123)

\* Running -> Shutoff: a round begins, a shutdown request is sent
ShutdownRequest ==
  /\ stack # <<>> /\ Top.pc = "shutdown"
  /\ \E res \in CallOutcomes(Top.vm, "Shutdown") :
       /\ Hci(Top.vm, "Shutdown", res)
       /\ OnShutdownResult([Top EXCEPT !.requests = @ + 1, !.lastReq = res],
                           res)
  /\ UNCHANGED <<interf, queries, warns, callerVars>>

\* the record of a polling call after time.Sleep and GetState returned q
Polled(f, q) ==
  [f EXCEPT !.newState = q.state,
            !.polled = q.state,
            !.lastSeen = IF q.ok THEN q.state ELSE @,
            !.elapsed = @ + SleepSeconds + PollLatency]

\* as AfterRounds, but with forceShutdown the call returns without destroying
AfterRoundsSkipsDestroy(f) ==
  IF f.force THEN ReturnFrom(f, RUNNING, "nil", 166)
  ELSE ReturnFrom(f, RUNNING, "GracefulShutdownTimedOut", 172)

\* Running -> Shutoff: all rounds are over ("could not shutdown the VM
\* gracefully, force?")
\* as AfterRounds, but the domain is destroyed whether or not the caller
\* asked for it
AfterRoundsAlwaysDestroys(f) == Goto(f, "destroy")

AfterRounds(f) ==
  IF f.force THEN Goto(f, "destroy")
  ELSE ReturnFrom(f, RUNNING, "GracefulShutdownTimedOut", 172)

\* as NextRound, but the rounds are over after the second request
NextRoundTwoRequests(f) ==
  IF f.i + 1 < ShutdownRounds - 1
  THEN Goto([f EXCEPT !.i = @ + 1], "shutdown")
  ELSE AfterRounds([f EXCEPT !.i = @ + 1])

\* Running -> Shutoff: the end of a round
NextRound(f) ==
  IF f.i + 1 < ShutdownRounds THEN Goto([f EXCEPT !.i = @ + 1], "shutdown")
  ELSE AfterRounds([f EXCEPT !.i = @ + 1])

\* as OnShutdownPoll, but the next round begins after every poll that did
\* not see Shutoff, however short the round was
OnShutdownPollNoWait(f) ==
  IF f.newState = SHUTOFF THEN ReturnFrom(f, RUNNING, "nil", 140)
  ELSE NextRound(f)

\* Running -> Shutoff: what the loop does with a poll
OnShutdownPoll(f) ==
  IF f.newState = SHUTOFF THEN ReturnFrom(f, RUNNING, "nil", 140)
  ELSE IF f.elapsed > MaxRoundDuration(f.timeout) THEN NextRound(f)
  ELSE Goto(f, "sh_poll")

\* Running -> Shutoff: one iteration of the inner loop
ShutdownPoll ==
  /\ stack # <<>> /\ Top.pc = "sh_poll"
  /\ \E q \in QueryOutcomes(Top.vm) :
       /\ Query(Top.vm, q)
       /\ OnShutdownPoll(Polled(Top, q))
  /\ UNCHANGED <<vmState, pending, interf, calls, warns, callerVars>>

\* Running -> Shutoff: the outcome of vm.Instance.Destroy()
OnDestroyResult(f, res) ==
  IF res = "ok" THEN ReturnFrom(f, RUNNING, "nil", 166)
  ELSE ReturnFrom(f, RUNNING, "TransitionFailed", 164)

\* Running -> Shutoff: vm.Instance.Destroy() after the rounds
Destroy ==
  /\ stack # <<>> /\ Top.pc = "destroy"
  /\ \E res \in CallOutcomes(Top.vm, "Destroy") :
       /\ Hci(Top.vm, "Destroy", res)
       /\ OnDestroyResult([Top EXCEPT !.destroys = @ + 1], res)
  /\ UNCHANGED <<interf, queries, warns, callerVars>>

\* as OnShuttingDownPoll, but a wait that timed out is an error and hands
\* back the observed state
OnShuttingDownPollTimesOut(f) ==
  IF f.newState = SHUTOFF THEN ReturnFrom(f, SHUTOFF, "nil", 256)
  ELSE IF f.elapsed > TotalTimeout(f.timeout)
       THEN ReturnFrom(f, f.state, "TransitionTimedOut", 271)
  ELSE Goto(f, "sd_poll")

\* Shutting-Down -> Shutoff: what the loop does with a poll
OnShuttingDownPoll(f) ==
  IF f.newState = SHUTOFF THEN ReturnFrom(f, SHUTOFF, "nil", 256)
  ELSE IF f.elapsed > TotalTimeout(f.timeout)
       THEN ReturnFrom(f, SHUTOFF, "nil", 271)
  ELSE Goto(f, "sd_poll")

\* Shutting-Down -> Shutoff: one iteration of the waiting loop
ShuttingDownPoll ==
  /\ stack # <<>> /\ Top.pc = "sd_poll"
  /\ \E q \in QueryOutcomes(Top.vm) :
       /\ Query(Top.vm, q)
       /\ OnShuttingDownPoll(Polled(Top, q))
  /\ UNCHANGED <<vmState, pending, interf, calls, warns, callerVars>>

\* as OnBlockedPoll, but the wait is over after a round of the graceful
\* shutdown, a third of the timeout
OnBlockedPollDividesTimeout(f) ==
  IF f.newState # BLOCKED THEN CallHop(f, f.to, "bl_hop")
  ELSE IF f.elapsed > MaxRoundDuration(f.timeout)
       THEN ReturnFrom(f, RUNNING, "TransitionTimedOut", 453)
  ELSE Goto(f, "bl_poll")

\* Blocked: what the loop does with a poll
OnBlockedPoll(f) ==
  IF f.newState # BLOCKED THEN CallHop(f, f.to, "bl_hop")
  ELSE IF f.elapsed > TotalTimeout(f.timeout)
       THEN ReturnFrom(f, RUNNING, "TransitionTimedOut", 453)
  ELSE Goto(f, "bl_poll")

\* Blocked: one iteration of the waiting loop
BlockedPoll ==
  /\ stack # <<>> /\ Top.pc = "bl_poll"
  /\ \E q \in QueryOutcomes(Top.vm) :
       /\ Query(Top.vm, q)
       /\ OnBlockedPoll(Polled(Top, q))
  /\ UNCHANGED <<vmState, pending, interf, calls, warns, callerVars>>

\* Blocked: the transition from the newly observed state returned
BlockedHopReturn ==
  /\ stack # <<>> /\ Top.pc = "bl_hop" /\ ret # NoRet
  /\ IF ret.err # "nil"
     THEN ReturnFrom(Top, Top.state, ret.err, 425) /\ UNCHANGED warns
     ELSE /\ Warn(ret.state # Top.newState, 429)
          /\ ReturnWith(Top, RUNNING, "nil", 436, ret.state, ret.observed)
  /\ UNCHANGED <<vmState, pending, interf, faults, calls, queries,
                 callerVars>>

\* the source lines of the composed transitions out of Shutoff/Crashed,
\* Paused and PM-Suspended: the three blocks are the same
HopLines(state) ==
  CASE state = PAUSED      -> [err1 |-> 331, warn1 |-> 335, err2 |-> 343,
                               warn2 |-> 347, ok |-> 352]
    [] state = PMSUSPENDED -> [err1 |-> 378, warn1 |-> 382, err2 |-> 390,
                               warn2 |-> 394, ok |-> 399]
    [] OTHER               -> [err1 |-> 208, warn1 |-> 212, err2 |-> 220,
                               warn2 |-> 224, ok |-> 229]

\* as Hop1Return, but the second hop is made after a failed first hop too
Hop1ReturnGoesOn ==
  /\ stack # <<>> /\ Top.pc = "hop1" /\ ret # NoRet
  /\ Warn(ret.err = "nil" /\ ret.state # Top.state, HopLines(Top.state).warn1)
  /\ CallHop(Top, Top.to, "hop2")
  /\ UNCHANGED <<vmState, pending, interf, faults, calls, queries,
                 callerVars>>

\* composed transition: the first hop (to Running) returned
Hop1Return ==
  /\ stack # <<>> /\ Top.pc = "hop1" /\ ret # NoRet
  /\ IF ret.err # "nil"
     THEN ReturnFrom(Top, Top.state, ret.err, HopLines(Top.state).err1)
          /\ UNCHANGED warns
     ELSE /\ Warn(ret.state # Top.state, HopLines(Top.state).warn1)
          /\ CallHop(Top, Top.to, "hop2")
  /\ UNCHANGED <<vmState, pending, interf, faults, calls, queries,
                 callerVars>>

\* as OnHop2Return, but a changed intermediate state is an error
OnHop2ReturnStrict(f, r) ==
  IF r.err # "nil"
  THEN /\ ReturnWith(f, f.state, r.err, HopLines(f.state).err2, "none",
                     r.observed)
       /\ UNCHANGED warns
  ELSE IF r.state # RUNNING
  THEN /\ ReturnWith(f, f.state, "TransitionFailed", HopLines(f.state).err2,
                     r.state, r.observed)
       /\ UNCHANGED warns
  ELSE /\ UNCHANGED warns
       /\ ReturnWith(f, f.state, "nil", HopLines(f.state).ok, r.state,
                     r.observed)

\* composed transition: what the return r of the second hop leads to
OnHop2Return(f, r) ==
  IF r.err # "nil"
  THEN /\ ReturnWith(f, f.state, r.err, HopLines(f.state).err2, "none",
                     r.observed)
       /\ UNCHANGED warns
  ELSE /\ Warn(r.state # RUNNING, HopLines(f.state).warn2)
       /\ ReturnWith(f, f.state, "nil", HopLines(f.state).ok, r.state,
                     r.observed)

\* composed transition: the second hop (to the target) returned
Hop2Return ==
  /\ stack # <<>> /\ Top.pc = "hop2" /\ ret # NoRet
  /\ OnHop2Return(Top, ret)
  /\ UNCHANGED <<vmState, pending, interf, faults, calls, queries,
                 callerVars>>

\* Shutting-Down -> other: the wait for Shutoff returned
ShuttingDownHop1Return ==
  /\ stack # <<>> /\ Top.pc = "sd_hop1" /\ ret # NoRet
  /\ IF ret.err # "nil"
     THEN ReturnFrom(Top, SHUTOFF, ret.err, 280) /\ UNCHANGED warns
     ELSE /\ Warn(ret.state # Top.state /\ ret.state # SHUTOFF, 284)
          /\ CallHop(Top, Top.to, "sd_hop2")
  /\ UNCHANGED <<vmState, pending, interf, faults, calls, queries,
                 callerVars>>

\* Shutting-Down -> other: the transition to the target returned
ShuttingDownHop2Return ==
  /\ stack # <<>> /\ Top.pc = "sd_hop2" /\ ret # NoRet
  /\ IF ret.err # "nil"
     THEN ReturnFrom(Top, SHUTOFF, ret.err, 294) /\ UNCHANGED warns
     ELSE /\ Warn(ret.state # SHUTOFF, 298)
          /\ ReturnWith(Top, SHUTOFF, "nil", 305, ret.state, ret.observed)
  /\ UNCHANGED <<vmState, pending, interf, faults, calls, queries,
                 callerVars>>

\* every step of Transition
TransitionStep ==
  \/ TransitionEnter
  \/ Suspend \/ PMSuspend \/ Create \/ Resume \/ PMWakeup
  \/ ShutdownRequest \/ ShutdownPoll \/ Destroy
  \/ ShuttingDownPoll \/ ShuttingDownHop1Return \/ ShuttingDownHop2Return
  \/ Hop1Return \/ Hop2Return
  \/ BlockedPoll \/ BlockedHopReturn

\* ------------------------------------------------------------------------
\* The API driver: one call of Transition on a domain and, when it succeeded,
\* the call that restores the returned previous state, as createRun and
\* exportRun make them
\* ------------------------------------------------------------------------
DriverVM == 1

\* what the driver keeps of a finished call
Finished(r, before) ==
  [to |-> r.to, force |-> r.force, before |-> before, state |-> r.state,
   err |-> r.err, site |-> r.site, observed |-> r.observed,
   calls |-> calls, queries |-> queries, warns |-> warns,
   after |-> vmState[r.vm], interf |-> interf, faults |-> faults]

DriverCall ==
  /\ hpc = "idle"
  /\ \E to \in DomainStates, force \in BOOLEAN, timeout \in Timeouts :
       stack' = <<NewFrame(DriverVM, to, force, timeout)>>
  /\ hpc' = "called"
  /\ UNCHANGED <<vmState, pending, interf, faults, ret, calls,
                 queries, warns, results, cmdVars, virtVars>>

DriverReturn ==
  /\ hpc = "called" /\ stack = <<>> /\ ret # NoRet
  /\ results' = Append(results, Finished(ret, ret.observed))
  /\ hpc' = "done"
  /\ ret' = NoRet
  /\ calls' = <<>> /\ queries' = 0 /\ warns' = <<>>
  /\ UNCHANGED <<vmState, pending, interf, faults, stack, cmdVars, virtVars>>

\* ------------------------------------------------------------------------
\* Specification of the transition engine under the API driver
\* ------------------------------------------------------------------------
Init ==
  /\ vmState \in {f \in [VMs -> DomainStates] :
                    \A v \in VMs \ {DriverVM} : f[v] = SHUTOFF}
  /\ pending = {}
  /\ interf = 0 /\ faults = 0
  /\ stack = <<>> /\ ret = NoRet
  /\ calls = <<>> /\ queries = 0 /\ warns = <<>>
  /\ hpc = "idle" /\ results = <<>>
  /\ NoCommand

Next ==
  \/ DriverCall \/ DriverReturn
  \/ TransitionStep
  \/ GuestProgress \/ ThirdParty

Spec == Init /\ [][Next]_vars

\* ------------------------------------------------------------------------
\* Properties of the transition engine
\* ------------------------------------------------------------------------
\* a call of Transition returned and its caller has not yet taken the value
Returned == ret # NoRet
\* ... and that call's initial state query had succeeded
ReturnedAfterQuery == Returned /\ ret.observed # "none"
LastCall == calls[Len(calls)]
LastWarn == warns[Len(warns)]

\* C1 as stated: every call of Transition whose initial query succeeded
\* returns the state that query observed, whatever the state.
C1_ReturnsObservedState ==
  ReturnedAfterQuery => ret.state = ret.observed

\* C1 as amended: the call returns the state its initial query observed when
\* that is Running, Paused, PM-Suspended, Shutoff, Crashed or NoState; a
\* domain observed Shutting-Down is reported as Shutoff; a domain observed
\* Blocked is reported as Running, and as Blocked only when the transition
\* that followed the wait failed.
C1_PreviousStateContract ==
  ReturnedAfterQuery =>
    CASE ret.observed = SHUTDOWN -> ret.state = SHUTOFF
      [] ret.observed = BLOCKED  ->
           ret.state = (IF ret.site = 425 THEN BLOCKED ELSE RUNNING)
      [] OTHER -> ret.state = ret.observed

\* C1 witness: a paused domain was resumed and the call hands back Paused,
\* not the new state
C1_Witness ==
  /\ ReturnedAfterQuery /\ ret.depth = 1
  /\ ret.observed = PAUSED /\ ret.to = RUNNING /\ ret.err = "nil"
  /\ ret.state = PAUSED /\ vmState[ret.vm] = RUNNING

\* a Running -> Shutoff call returned after its third round ended without a
\* poll that observed Shutoff
RoundsExhausted ==
  /\ ReturnedAfterQuery /\ ret.observed = RUNNING /\ ret.to = SHUTOFF
  /\ ret.requests = ShutdownRounds /\ ret.lastReq = "ok"
  /\ ret.polled # SHUTOFF

\* after three fruitless rounds a forced call destroys once and succeeds
\* unless the destroy fails; an unforced call destroys nothing and fails with
\* the timeout error
C6_ForceOrTimeout ==
  IF ret.force
  THEN /\ ret.destroys = 1 /\ LastCall.op = "Destroy"
       /\ (ret.err = "nil") = (LastCall.res = "ok")
  ELSE /\ ret.destroys = 0
       /\ \A k \in DOMAIN calls : calls[k].op # "Destroy"
       /\ ret.err = "GracefulShutdownTimedOut"

\* C6 as stated: after three fruitless rounds a forced call destroys once and
\* succeeds unless the destroy fails; an unforced call destroys nothing and
\* fails with the timeout error, which reports the state the domain was last
\* observed in.
C6_ReportsLastObservedState ==
  RoundsExhausted =>
    /\ C6_ForceOrTimeout
    /\ ~ret.force => ret.reported = ret.lastSeen

\* C6, the state that breaks it: the state query of the last poll of an
\* unforced call failed; the timeout error reports NoState, the zero value
\* the failed query handed back, while the domain was last observed running
C6_Witness ==
  /\ RoundsExhausted /\ ~ret.force
  /\ ret.err = "GracefulShutdownTimedOut"
  /\ ret.reported = NOSTATE /\ ret.lastSeen = RUNNING
  /\ vmState[ret.vm] = RUNNING

\* C7: in Running -> Shutoff, a re-issued shutdown request refused as
\* "operation invalid" ends the call with success, previous state Running
\* and no destroy; a shutdown request that fails otherwise ends it with
\* TransitionFailed, and no request or destroy follows.
C7_InvalidOnReissueIsSuccess ==
  (ReturnedAfterQuery /\ ret.observed = RUNNING /\ ret.to = SHUTOFF) =>
    /\ (ret.requests >= 2 /\ ret.lastReq = "invalid") =>
         /\ ret.err = "nil" /\ ret.state = RUNNING /\ ret.destroys = 0
         /\ LastCall.op = "Shutdown"
    /\ ret.lastReq = "error" =>
         /\ ret.err = "TransitionFailed" /\ ret.state = RUNNING
         /\ ret.destroys = 0
         /\ LastCall = [op |-> "Shutdown", vm |-> ret.vm, res |-> "error"]

\* C7 witness: the guest went down between the last poll of a round and the
\* next request
C7_Witness ==
  /\ ReturnedAfterQuery /\ ret.observed = RUNNING /\ ret.to = SHUTOFF
  /\ ret.requests >= 2 /\ ret.lastReq = "invalid"
  /\ ret.err = "nil" /\ vmState[ret.vm] = SHUTOFF

\* the outermost call was a composed Shutoff -> Paused / PM-Suspended
ComposedFromShutoff ==
  /\ ReturnedAfterQuery /\ ret.depth = 1
  /\ ret.observed = SHUTOFF /\ ret.to \in {PAUSED, PMSUSPENDED}

SuspendOpFor(to) == IF to = PAUSED THEN "Suspend" ELSE "PMSuspend"

TwoCalls(vm, to) ==
  <<[op |-> "Create", vm |-> vm, res |-> "ok"],
    [op |-> SuspendOpFor(to), vm |-> vm, res |-> "ok"]>>

\* C8 as stated: a composed Shutoff -> Paused (PM-Suspended) issues exactly
\* power-on and then suspend when nobody interferes, and when the state
\* observed at the midpoint (by the second hop's state query) is not Running
\* the call warns and returns no error (no hypervisor call failing).
C8_TwoCallsAndWarn ==
  (ComposedFromShutoff /\ faults = 0) =>
    /\ interf = 0 => ret.err = "nil" /\ calls = TwoCalls(ret.vm, ret.to)
    /\ ret.mid \notin {"none", RUNNING} =>
         /\ ret.err = "nil"
         /\ warns # <<>> /\ LastWarn = [line |-> 224, depth |-> 1]

\* C8 as amended: without third-party changes and failing calls the composed
\* transition issues exactly power-on and then suspend and succeeds; whenever
\* the second hop returns, without error, a previous state other than
\* Running, the call logs a warning and returns Shutoff without error.  (A
\* Blocked midpoint is returned as Running and not warned about, and a
\* midpoint the second hop cannot leave ends the call with that error.)
C8_ComposedTransition ==
  ComposedFromShutoff =>
    /\ (interf = 0 /\ faults = 0) =>
         ret.err = "nil" /\ calls = TwoCalls(ret.vm, ret.to)
    /\ ret.prev \notin {"none", RUNNING} =>
         /\ ret.err = "nil" /\ ret.state = SHUTOFF
         /\ warns # <<>> /\ LastWarn = [line |-> 224, depth |-> 1]

\* C8 witness: a third party paused the domain between the hops; power-on
\* was the only call, the call warned and succeeded
C8_Witness ==
  /\ ComposedFromShutoff /\ ret.to = PAUSED
  /\ ret.mid = PAUSED /\ ret.prev = PAUSED /\ ret.err = "nil"
  /\ calls = <<[op |-> "Create", vm |-> ret.vm, res |-> "ok"]>>
  /\ LastWarn = [line |-> 224, depth |-> 1]

\* C9: Transition to the state the domain is observed in (Running, Paused,
\* PM-Suspended, Shutoff) returns that state without error and issues no
\* state-changing call; with no one else acting the domain stays as it was.
C9_SameStateIsNoOp ==
  (ReturnedAfterQuery /\ ret.depth = 1 /\ ret.observed = ret.to) =>
    /\ ret.state = ret.to /\ ret.err = "nil"
    /\ calls = <<>>
    /\ queries = 1
    /\ interf = 0 => vmState[ret.vm] = ret.to

\* C9 witness: a paused domain was asked to be paused
C9_Witness ==
  /\ ReturnedAfterQuery /\ ret.depth = 1
  /\ ret.observed = PAUSED /\ ret.to = PAUSED /\ ret.err = "nil"

\* the call made through the API returned
TopReturned == Returned /\ ret.depth = 1

\* C11: a call of Transition with a target other than Running, Paused,
\* PM-Suspended and Shutoff returns the InvalidTargetState error (and
\* NoState) without a state query and without a state-changing call,
\* whatever state the domain is in; no other call returns that error.
C11_InvalidTargetNoCall ==
  TopReturned =>
    /\ (ret.to \notin {RUNNING, PAUSED, PMSUSPENDED, SHUTOFF}) =>
         /\ ret.err = "InvalidTargetState" /\ ret.state = NOSTATE
         /\ queries = 0 /\ calls = <<>>
    /\ ret.err = "InvalidTargetState" =>
         ret.to \in {SHUTDOWN, BLOCKED, CRASHED, NOSTATE}

\* C11 witness: a running domain was asked to become Blocked
C11_Witness ==
  /\ TopReturned /\ ret.to = BLOCKED /\ ret.err = "InvalidTargetState"
  /\ vmState[ret.vm] = RUNNING /\ queries = 0 /\ calls = <<>>

\* C12: a call whose initial state query fails returns the StateQueryFailed
\* error (and NoState) at once: that query is the only one it made, and it
\* issued no state-changing call.
C12_QueryFailureIsTerminal ==
  (TopReturned /\ ret.to \in AllowedTargets /\ ret.observed = "none") =>
    /\ ret.err = "StateQueryFailed" /\ ret.state = NOSTATE /\ ret.site = 58
    /\ queries = 1 /\ calls = <<>>
    /\ faults >= 1

\* C12 witness: the state of a running domain could not be read when it was
\* to be shut off
C12_Witness ==
  /\ TopReturned /\ ret.to = SHUTOFF /\ ret.observed = "none"
  /\ ret.err = "StateQueryFailed" /\ queries = 1
  /\ vmState[ret.vm] = RUNNING

\* ------------------------------------------------------------------------
\* The round trip: Transition(Shutoff) on a running domain and, when it
\* succeeded, Transition(Running) right after it
\* ------------------------------------------------------------------------
RoundTripCall ==
  /\ hpc = "idle"
  /\ \E force \in BOOLEAN, timeout \in Timeouts :
       stack' = <<NewFrame(DriverVM, SHUTOFF, force, timeout)>>
  /\ hpc' = "called"
  /\ UNCHANGED <<vmState, pending, interf, faults, ret, calls,
                 queries, warns, results, cmdVars, virtVars>>

RoundTripReturn ==
  /\ hpc = "called" /\ stack = <<>> /\ ret # NoRet
  /\ results' = Append(results, Finished(ret, ret.observed))
  /\ IF ret.err = "nil"
     THEN /\ hpc' = "restoring"
          /\ stack' = <<NewFrame(DriverVM, RUNNING, ret.force, ret.timeout)>>
     ELSE /\ hpc' = "done"
          /\ stack' = stack
  /\ ret' = NoRet
  /\ calls' = <<>> /\ queries' = 0 /\ warns' = <<>>
  /\ UNCHANGED <<vmState, pending, interf, faults, cmdVars, virtVars>>

RoundTripRestored ==
  /\ hpc = "restoring" /\ stack = <<>> /\ ret # NoRet
  /\ results' = Append(results, Finished(ret, ret.observed))
  /\ hpc' = "done"
  /\ ret' = NoRet
  /\ calls' = <<>> /\ queries' = 0 /\ warns' = <<>>
  /\ UNCHANGED <<vmState, pending, interf, faults, stack, cmdVars, virtVars>>

InitRoundTrip ==
  /\ vmState = [v \in VMs |-> IF v = DriverVM THEN RUNNING ELSE SHUTOFF]
  /\ pending = {}
  /\ interf = 0 /\ faults = 0
  /\ stack = <<>> /\ ret = NoRet
  /\ calls = <<>> /\ queries = 0 /\ warns = <<>>
  /\ hpc = "idle" /\ results = <<>>
  /\ NoCommand

NextRoundTrip ==
  \/ RoundTripCall \/ RoundTripReturn \/ RoundTripRestored
  \/ TransitionStep
  \/ GuestProgress \/ ThirdParty

SpecRoundTrip == InitRoundTrip /\ [][NextRoundTrip]_vars

\* both calls of the round trip returned; no third party acted and no
\* hypervisor call failed
RoundTripDone ==
  /\ hpc = "done" /\ Len(results) = 2
  /\ interf = 0 /\ faults = 0

\* C10: from a running domain, with no third party acting and a hypervisor
\* that carries out every request, Transition(Shutoff) followed by
\* Transition(Running) leaves the domain running; the first call returns
\* Running, the second Shutoff.
C10_RoundTrip ==
  RoundTripDone =>
    /\ results[1].before = RUNNING /\ results[1].state = RUNNING
    /\ results[2].state = SHUTOFF /\ results[2].err = "nil"
    /\ vmState[DriverVM] = RUNNING

\* C10 witness: the guest ignored three shutdown requests, was destroyed and
\* booted again
C10_Witness ==
  /\ RoundTripDone
  /\ results[1].force /\ Len(results[1].calls) = ShutdownRounds + 1
  /\ results[2].calls = <<[op |-> "Create", vm |-> DriverVM, res |-> "ok"]>>
  /\ vmState[DriverVM] = RUNNING

\* ------------------------------------------------------------------------
\* What the commands share: the listing of the domains, the snapshot of a
\* domain, the exit of the process
\* ------------------------------------------------------------------------
hyperVars == <<vmState, pending, interf, faults>>
engineVars == <<stack, ret, calls, queries, warns>>
\* what the commands leave alone: the API driver and the calls it makes
apiVars == <<hpc, results, virtVars>>
cleanVars == <<snaps, listing, ci, cleanLog>>

\* the domain the range loop is at
CurVM == vms[idx]

\* the domains of a set in the order of VMSorter (by name; a domain's
\* number is the rank of its name)
RECURSIVE SortedSeq(_)
SortedSeq(S) ==
  IF S = {} THEN <<>>
  ELSE LET m == CHOOSE x \in S : \A y \in S : x <= y
       IN  <<m>> \o SortedSeq(S \ {m})

\* "defer virt.FreeVMs(logger, vms)"
DeferFreeVMs == [kind |-> "FreeVMs", former |-> NOSTATE]

\* ListMatchingVMs and the check of its result: the command exits when the
\* listing failed or matched no domain
ListVMs ==
  /\ opc = "list"
  /\ \/ /\ opc' = "exited" /\ exitCode' = "1"
        /\ UNCHANGED <<vms, idx, deferred>>
     \/ \E S \in SUBSET VMs :
          /\ vms' = SortedSeq(S)
          /\ deferred' = <<DeferFreeVMs>>
          /\ IF S = {}
             THEN opc' = "exited" /\ exitCode' = "1" /\ idx' = idx
             ELSE opc' = "loop" /\ exitCode' = exitCode /\ idx' = 1
  /\ UNCHANGED <<build, flags, failed, formerState, hist>>
  /\ UNCHANGED <<hyperVars, engineVars, apiVars, cleanVars>>

\* a third party changes the domain of the loop between two calls of
\* Transition, while the snapshot is taken or the domain is exported
ThirdPartyBetweenCalls == stack = <<>> /\ ThirdParty

\* the outcomes of a call that fails only for reasons of its own
PlainOutcomes == {"ok"} \cup (IF faults < MaxFaults THEN {"error"} ELSE {})

\* vm.CreateSnapshot(prefix, description), as the commands see it
TakeSnapshot(vm, res) ==
  /\ res \in PlainOutcomes
  /\ faults' = IF res = "error" THEN faults + 1 ELSE faults
  /\ calls' = Append(calls, [op |-> "CreateSnapshot", vm |-> vm, res |-> res])

\* hist after the snapshot of vm
HistSnapshot(h, vm, res) ==
  [h EXCEPT ![vm].snapshot = res, ![vm].snapAt = vmState[vm]]

\* hist after a restoring Transition(to, ..) was called on vm
HistRestore(h, vm, to) ==
  [h EXCEPT ![vm].restores = Append(@, to)]

\* virt.FreeVMs(vms): the handle of every listed domain is freed
FreeVMs(h) ==
  [v \in VMs |-> IF \E k \in 1..Len(vms) : vms[k] = v
                 THEN [h[v] EXCEPT !.freed = @ + 1]
                 ELSE h[v]]

\* the range loop is over: "if failed { logger.Fatal(..) }", else the
\* command function returns
Finish ==
  /\ opc = "loop" /\ idx > Len(vms)
  /\ IF failed
     THEN opc' = "exited" /\ exitCode' = "1"
     ELSE opc' = "unwind" /\ exitCode' = exitCode
  /\ UNCHANGED <<build, flags, vms, idx, failed, formerState, deferred, hist>>
  /\ UNCHANGED <<hyperVars, engineVars, apiVars, cleanVars>>

\* the command function returns: its deferred calls run, last one first; a
\* deferred restoring closure reads the range variable vm, which holds the
\* last domain of vms
Unwind ==
  /\ opc = "unwind" /\ stack = <<>> /\ ret = NoRet
  /\ IF deferred = <<>>
     THEN /\ opc' = "exited" /\ exitCode' = "0"
          /\ UNCHANGED <<deferred, hist, stack>>
     ELSE LET d == deferred[Len(deferred)]
              vm == vms[Len(vms)]
          IN  /\ exitCode' = exitCode
              /\ IF d.kind = "FreeVMs"
                 THEN /\ deferred' = SubSeq(deferred, 1, Len(deferred) - 1)
                      /\ opc' = opc
                      /\ hist' = FreeVMs(hist)
                      /\ UNCHANGED stack
                 ELSE /\ stack' = <<NewFrame(vm, d.former, TRUE, flags.timeout)>>
                      /\ hist' = HistRestore(hist, vm, d.former)
                      /\ opc' = "unwind_restore"
                      /\ deferred' = deferred
  /\ UNCHANGED <<build, flags, vms, idx, failed, formerState>>
  /\ UNCHANGED <<hyperVars, ret, calls, queries, warns, apiVars, cleanVars>>

\* a restoring Transition returned: on an error the flag is set and the
\* state of the domain is read for the log
RestoreReturned ==
  /\ stack = <<>> /\ ret # NoRet
  /\ IF ret.err # "nil"
     THEN /\ failed' = TRUE
          /\ \E q \in QueryOutcomes(ret.vm) : Query(ret.vm, q)
     ELSE UNCHANGED <<failed, queries, faults>>
  /\ hist' = [hist EXCEPT ![ret.vm].restored =
                             IF ret.err # "nil" \/ @ = "failed" THEN "failed"
                             ELSE "ok"]
  /\ ret' = NoRet

UnwindRestoreReturn ==
  /\ opc = "unwind_restore"
  /\ RestoreReturned
  /\ deferred' = SubSeq(deferred, 1, Len(deferred) - 1)
  /\ opc' = "unwind"
  /\ UNCHANGED <<build, flags, vms, idx, formerState, exitCode>>
  /\ UNCHANGED <<vmState, pending, interf, stack, calls, warns, apiVars, cleanVars>>

\* ------------------------------------------------------------------------
\* createRun
\* ------------------------------------------------------------------------
\* the check of the flags: -f only with -s, a timeout above zero
CreateCheckFlags ==
  /\ build = "create" /\ opc = "start"
  /\ IF (flags.force /\ ~flags.shutdown) \/ flags.timeout <= 0
     THEN opc' = "exited" /\ exitCode' = "1"
     ELSE opc' = "list" /\ exitCode' = exitCode
  /\ UNCHANGED <<build, flags, vms, idx, failed, formerState, deferred, hist>>
  /\ UNCHANGED <<hyperVars, engineVars, apiVars, cleanVars>>

\* the head of the loop body: with --shutdown the domain is brought down
CreateLoop ==
  /\ build = "create" /\ opc = "loop" /\ idx <= Len(vms)
  /\ formerState' = NOSTATE
  /\ calls' = <<>> /\ queries' = 0 /\ warns' = <<>>
  /\ IF flags.shutdown
     THEN /\ stack' = <<NewFrame(CurVM, SHUTOFF, flags.force, flags.timeout)>>
          /\ opc' = "shut"
     ELSE /\ stack' = stack
          /\ opc' = "snap"
  /\ UNCHANGED <<build, flags, vms, idx, failed, deferred, exitCode, hist>>
  /\ UNCHANGED <<hyperVars, ret, apiVars, cleanVars>>

\* as CreateShutdownReturn, but after a failed Transition the snapshot is
\* taken all the same
CreateShutdownReturnGoesOn ==
  /\ build = "create" /\ opc = "shut" /\ stack = <<>> /\ ret # NoRet
  /\ failed' = (failed \/ ret.err # "nil")
  /\ formerState' = ret.state
  /\ hist' = [hist EXCEPT ![CurVM].down = IF ret.err # "nil" THEN "failed"
                                          ELSE "ok",
                          ![CurVM].former = ret.state]
  /\ opc' = "snap"
  /\ ret' = NoRet
  /\ queries' = 0 /\ warns' = <<>>
  /\ UNCHANGED <<build, flags, vms, idx, deferred, exitCode>>
  /\ UNCHANGED <<hyperVars, stack, calls, apiVars, cleanVars>>

\* Transition(Shutoff) returned: on an error the domain is skipped (the
\* calls made for the domain are kept until the loop goes on)
CreateShutdownReturn ==
  /\ build = "create" /\ opc = "shut" /\ stack = <<>> /\ ret # NoRet
  /\ IF ret.err # "nil"
     THEN /\ failed' = TRUE
          /\ idx' = idx + 1
          /\ opc' = "loop"
          /\ hist' = [hist EXCEPT ![CurVM].down = "failed"]
          /\ UNCHANGED formerState
     ELSE /\ formerState' = ret.state
          /\ hist' = [hist EXCEPT ![CurVM].down = "ok",
                                  ![CurVM].former = ret.state]
          /\ opc' = "snap"
          /\ UNCHANGED <<failed, idx>>
  /\ ret' = NoRet
  /\ queries' = 0 /\ warns' = <<>>
  /\ UNCHANGED <<build, flags, vms, deferred, exitCode>>
  /\ UNCHANGED <<hyperVars, stack, calls, apiVars, cleanVars>>

\* as CreateSnapshotStep, but a failed snapshot skips the rest of the loop
\* body as a failed shutdown does
CreateSnapshotStepContinues ==
  /\ build = "create" /\ opc = "snap"
  /\ \E res \in PlainOutcomes :
       /\ TakeSnapshot(CurVM, res)
       /\ failed' = (failed \/ res = "error")
       /\ IF flags.shutdown /\ res = "ok"
          THEN /\ stack' = <<NewFrame(CurVM, formerState, flags.force, flags.timeout)>>
               /\ hist' = HistRestore(HistSnapshot(hist, CurVM, res), CurVM, formerState)
               /\ opc' = "restore"
               /\ idx' = idx
          ELSE /\ stack' = stack
               /\ hist' = HistSnapshot(hist, CurVM, res)
               /\ opc' = "loop"
               /\ idx' = idx + 1
  /\ UNCHANGED <<build, flags, vms, formerState, deferred, exitCode>>
  /\ UNCHANGED <<vmState, pending, interf, ret, queries, warns, apiVars, cleanVars>>

\* the snapshot is taken; whether or not that failed, with --shutdown the
\* previous state of the domain is restored
CreateSnapshotStep ==
  /\ build = "create" /\ opc = "snap"
  /\ \E res \in PlainOutcomes :
       /\ TakeSnapshot(CurVM, res)
       /\ failed' = (failed \/ res = "error")
       /\ IF flags.shutdown
          THEN /\ stack' = <<NewFrame(CurVM, formerState, flags.force, flags.timeout)>>
               /\ hist' = HistRestore(HistSnapshot(hist, CurVM, res), CurVM, formerState)
               /\ opc' = "restore"
               /\ idx' = idx
          ELSE /\ stack' = stack
               /\ hist' = HistSnapshot(hist, CurVM, res)
               /\ opc' = "loop"
               /\ idx' = idx + 1
  /\ UNCHANGED <<build, flags, vms, formerState, deferred, exitCode>>
  /\ UNCHANGED <<vmState, pending, interf, ret, queries, warns, apiVars, cleanVars>>

\* the restoring Transition returned
CreateRestoreReturn ==
  /\ build = "create" /\ opc = "restore"
  /\ RestoreReturned
  /\ idx' = idx + 1
  /\ opc' = "loop"
  /\ UNCHANGED <<build, flags, vms, formerState, deferred, exitCode>>
  /\ UNCHANGED <<vmState, pending, interf, stack, calls, warns, apiVars, cleanVars>>

\* the flags createRun can be started with
CreateFlags ==
  {[shutdown |-> sd, force |-> fo, timeout |-> t,
    snapshot |-> TRUE, keep |-> 0, assumeYes |-> FALSE] :
     sd \in BOOLEAN, fo \in BOOLEAN, t \in Timeouts}

\* the domains when a command starts: the first one in any state, the
\* others running or shut off
DomainsAtStart ==
  {f \in [VMs -> DomainStates \ {NOSTATE}] :
     \A v \in VMs \ {1} : f[v] \in {RUNNING, SHUTOFF}}

\* a command starts: nothing was called yet
CommandStarts ==
  /\ pending = {}
  /\ interf = 0 /\ faults = 0
  /\ stack = <<>> /\ ret = NoRet
  /\ calls = <<>> /\ queries = 0 /\ warns = <<>>
  /\ hpc = "idle" /\ results = <<>>
  /\ opc = "start" /\ vms = <<>> /\ idx = 0 /\ failed = FALSE
  /\ formerState = NOSTATE /\ deferred = <<>> /\ exitCode = "none"
  /\ hist = NoHist /\ snaps = <<>> /\ listing = <<>> /\ ci = 0
  /\ cleanLog = NoCleanLog
  /\ lm = NoListing /\ snapCall = NoSnapshotCall

InitCreate ==
  /\ vmState \in DomainsAtStart
  /\ build = "create"
  /\ flags \in CreateFlags
  /\ CommandStarts

NextCreate ==
  \/ CreateCheckFlags \/ ListVMs
  \/ CreateLoop \/ CreateShutdownReturn \/ CreateSnapshotStep
  \/ CreateRestoreReturn
  \/ Finish \/ Unwind
  \/ TransitionStep
  \/ GuestProgress \/ ThirdPartyBetweenCalls

SpecCreate == InitCreate /\ [][NextCreate]_vars

\* ------------------------------------------------------------------------
\* Properties of createRun
\* ------------------------------------------------------------------------
\* the process is gone
Exited == opc = "exited"

\* C3: with --shutdown, for every domain whose snapshot was attempted,
\* successfully or not, the restoring Transition to the state the first
\* Transition returned was called, once.
C3_RestoreAfterSnapshot ==
  \A v \in VMs :
    (build = "create" /\ flags.shutdown /\ hist[v].snapshot # "none")
      => /\ hist[v].former # "none"
         /\ hist[v].restores = <<hist[v].former>>

\* C3 witness: the snapshot of a domain that had been running failed, the
\* domain was restored and runs again
C3_Witness ==
  /\ build = "create" /\ flags.shutdown /\ Exited
  /\ \E v \in VMs :
       /\ hist[v].snapshot = "error" /\ hist[v].snapAt = SHUTOFF
       /\ hist[v].former = RUNNING
       /\ hist[v].restores = <<RUNNING>>
       /\ vmState[v] = RUNNING

\* ------------------------------------------------------------------------
\* exportRun, in its two revisions: the restoring closure is deferred in an
\* anonymous function called in the loop body ("export-closure"), or in a
\* bare block of the loop body ("export-block"), where the deferred call
\* waits for the return of exportRun
\* ------------------------------------------------------------------------
ExportBuilds == {"export-closure", "export-block"}

\* the output directory is resolved (and, in the later revision, created)
ExportPrepare ==
  /\ build \in ExportBuilds /\ opc = "start"
  /\ \/ opc' = "exited" /\ exitCode' = "1"
     \/ opc' = "list" /\ exitCode' = exitCode
  /\ UNCHANGED <<build, flags, vms, idx, failed, formerState, deferred, hist>>
  /\ UNCHANGED <<hyperVars, engineVars, apiVars, cleanVars>>

\* the head of the loop body: the domain is brought down, by force if needed
ExportLoop ==
  /\ build \in ExportBuilds /\ opc = "loop" /\ idx <= Len(vms)
  /\ calls' = <<>> /\ queries' = 0 /\ warns' = <<>>
  /\ stack' = <<NewFrame(CurVM, SHUTOFF, TRUE, flags.timeout)>>
  /\ opc' = "shut"
  /\ UNCHANGED <<build, flags, vms, idx, failed, formerState, deferred,
                 exitCode, hist>>
  /\ UNCHANGED <<hyperVars, ret, apiVars, cleanVars>>

\* "defer func() { .. vm.Transition(formerState, true, timeout) .. }()"
DeferRestore(former) == [kind |-> "restore", former |-> former]

\* Transition(Shutoff) returned: on an error the domain is skipped, else
\* the restoring closure is deferred
ExportShutdownReturn ==
  /\ build \in ExportBuilds /\ opc = "shut" /\ stack = <<>> /\ ret # NoRet
  /\ IF ret.err # "nil"
     THEN /\ failed' = TRUE
          /\ idx' = idx + 1
          /\ opc' = "loop"
          /\ hist' = [hist EXCEPT ![CurVM].down = "failed"]
          /\ UNCHANGED <<formerState, deferred>>
     ELSE /\ formerState' = ret.state
          /\ hist' = [hist EXCEPT ![CurVM].down = "ok",
                                  ![CurVM].former = ret.state]
          /\ deferred' = IF build = "export-block"
                         THEN Append(deferred, DeferRestore(ret.state))
                         ELSE deferred
          /\ opc' = IF flags.snapshot THEN "snap" ELSE "export"
          /\ UNCHANGED <<failed, idx>>
  /\ ret' = NoRet
  /\ calls' = <<>> /\ queries' = 0 /\ warns' = <<>>
  /\ UNCHANGED <<build, flags, vms, exitCode>>
  /\ UNCHANGED <<hyperVars, stack, apiVars, cleanVars>>

\* the snapshot after the shutdown; the export follows in any case
ExportSnapshotStep ==
  /\ build \in ExportBuilds /\ opc = "snap"
  /\ \E res \in PlainOutcomes :
       /\ TakeSnapshot(CurVM, res)
       /\ failed' = (failed \/ res = "error")
       /\ hist' = HistSnapshot(hist, CurVM, res)
  /\ opc' = "export"
  /\ UNCHANGED <<build, flags, vms, idx, formerState, deferred, exitCode>>
  /\ UNCHANGED <<vmState, pending, interf, stack, ret, queries, warns,
                 apiVars, cleanVars>>

\* vm.Export; then the anonymous function returns and its deferred closure
\* restores the domain, or the block ends and nothing happens
ExportVM ==
  /\ build \in ExportBuilds /\ opc = "export"
  /\ \E res \in PlainOutcomes :
       /\ faults' = IF res = "error" THEN faults + 1 ELSE faults
       /\ failed' = (failed \/ res = "error")
       /\ IF build = "export-closure"
          THEN /\ stack' = <<NewFrame(CurVM, formerState, TRUE, flags.timeout)>>
               /\ hist' = HistRestore([hist EXCEPT ![CurVM].exported = res],
                                      CurVM, formerState)
               /\ opc' = "restore"
               /\ idx' = idx
          ELSE /\ stack' = stack
               /\ hist' = [hist EXCEPT ![CurVM].exported = res]
               /\ opc' = "loop"
               /\ idx' = idx + 1
  /\ UNCHANGED <<build, flags, vms, formerState, deferred, exitCode>>
  /\ UNCHANGED <<vmState, pending, interf, ret, calls, queries, warns,
                 apiVars, cleanVars>>

\* the restoring Transition of the closure returned
ExportRestoreReturn ==
  /\ build = "export-closure" /\ opc = "restore"
  /\ RestoreReturned
  /\ idx' = idx + 1
  /\ opc' = "loop"
  /\ UNCHANGED <<build, flags, vms, formerState, deferred, exitCode>>
  /\ UNCHANGED <<vmState, pending, interf, stack, calls, warns, apiVars, cleanVars>>

\* the flags exportRun can be started with
ExportFlags ==
  {[shutdown |-> TRUE, force |-> TRUE, timeout |-> t,
    snapshot |-> sn, keep |-> 0, assumeYes |-> FALSE] :
     sn \in BOOLEAN, t \in Timeouts}

InitExport ==
  /\ vmState \in DomainsAtStart
  /\ build \in ExportBuilds
  /\ flags \in ExportFlags
  /\ CommandStarts

NextExport ==
  \/ ExportPrepare \/ ListVMs
  \/ ExportLoop \/ ExportShutdownReturn \/ ExportSnapshotStep \/ ExportVM
  \/ ExportRestoreReturn
  \/ Finish \/ Unwind \/ UnwindRestoreReturn
  \/ TransitionStep
  \/ GuestProgress \/ ThirdPartyBetweenCalls

SpecExport == InitExport /\ [][NextExport]_vars

\* ------------------------------------------------------------------------
\* Properties of exportRun
\* ------------------------------------------------------------------------
\* C2: when the export command has exited, for every domain whose first
\* Transition succeeded exactly one restoring Transition was called, on that
\* domain and to the state the first Transition returned.
C2_RestoreOncePerVM ==
  (build \in ExportBuilds /\ Exited) =>
    \A v \in VMs :
      hist[v].former # "none" => hist[v].restores = <<hist[v].former>>

\* C2, the state that breaks it: the export of a domain that had been
\* running failed, the process exited with status 1, no restoring Transition
\* was called and the domain is left shut off
C2_Witness ==
  /\ build = "export-block" /\ Exited /\ exitCode = "1"
  /\ \E v \in VMs :
       /\ hist[v].former = RUNNING /\ hist[v].exported = "error"
       /\ hist[v].restores = <<>>
       /\ vmState[v] = SHUTOFF

\* ------------------------------------------------------------------------
\* Snapshots and VM.ListMatchingSnapshots
\* ------------------------------------------------------------------------
\* the creation times (seconds since the epoch) the hypervisor reports
SnapshotTimes == {9, 10, 20, 30, 40}

\* the snapshots the hypervisor can hold of a domain, in the order in which
\* ListAllSnapshots enumerates them
Stores ==
  UNION {{[i \in 1..n |-> [id |-> i, time |-> f[i]]] : f \in [1..n -> SnapshotTimes]} :
           n \in 0..MaxSnaps}

\* Descriptor.CreationTime: the decimal string of the creation time, as the
\* sequence of its digits
RECURSIVE CreationTime(_)
CreationTime(t) ==
  IF t < 10 THEN <<t>> ELSE Append(CreationTime(t \div 10), t % 10)

\* Go's < on strings: byte by byte, a proper prefix is smaller
RECURSIVE StringLess(_, _)
StringLess(a, b) ==
  IF b = <<>> THEN FALSE
  ELSE IF a = <<>> THEN TRUE
  ELSE IF Head(a) # Head(b) THEN Head(a) < Head(b)
  ELSE StringLess(Tail(a), Tail(b))

\* SnapshotSorter.Less
Less(x, y) == StringLess(CreationTime(x.time), CreationTime(y.time))

\* the rearrangements of a sequence
Rearrangements(q) ==
  {[i \in 1..Len(q) |-> q[f[i]]] :
     f \in {g \in [1..Len(q) -> 1..Len(q)] :
              \A i, j \in 1..Len(q) : i # j => g[i] # g[j]}}

\* what sort.Sort can make of q: ordered under Less, entries that Less does
\* not order in any order (the sort is not stable)
SortOutcomes(q) ==
  {p \in Rearrangements(q) :
     \A i, j \in 1..Len(p) : i < j => ~Less(p[j], p[i])}

\* ------------------------------------------------------------------------
\* cleanRun
\* ------------------------------------------------------------------------
\* the check of the flags: the keep count is not negative
CleanCheckFlags ==
  /\ build = "clean" /\ opc = "start"
  /\ IF flags.keep < 0
     THEN opc' = "exited" /\ exitCode' = "1"
     ELSE opc' = "list" /\ exitCode' = exitCode
  /\ UNCHANGED <<build, flags, vms, idx, failed, formerState, deferred, hist>>
  /\ UNCHANGED <<hyperVars, engineVars, apiVars, cleanVars>>

\* the range loop takes the next domain; what was held of the one before
\* is gone
CleanLoop ==
  /\ build = "clean" /\ opc = "loop" /\ idx <= Len(vms)
  /\ opc' = "listing"
  /\ snaps' = <<>> /\ listing' = <<>> /\ ci' = 0
  /\ cleanLog' = [NoCleanLog EXCEPT !.visited = cleanLog.visited,
                                   !.aborted = cleanLog.aborted]
  /\ UNCHANGED <<build, flags, vms, idx, failed, formerState, deferred,
                 exitCode, hist>>
  /\ UNCHANGED <<hyperVars, engineVars, apiVars>>

\* vm.ListMatchingSnapshots([".*"]) on what the hypervisor holds of the
\* domain; a snapshot whose descriptor cannot be read is skipped, a failed
\* listing skips the domain
CleanListSnapshots ==
  /\ build = "clean" /\ opc = "listing"
  /\ \E store \in Stores :
       /\ snaps' = store
       /\ \/ /\ faults < MaxFaults
             /\ faults' = faults + 1
             /\ failed' = TRUE
             /\ listing' = <<>> /\ ci' = 0
             /\ idx' = idx + 1
             /\ opc' = "loop"
             /\ cleanLog' = [cleanLog EXCEPT
                               !.visited = Append(@, CurVM),
                               !.store = store, !.done = "skipped"]
          \/ \E unreadable \in SUBSET (1..Len(store)) :
               /\ Cardinality(unreadable) <= MaxFaults - faults
               /\ faults' = faults + Cardinality(unreadable)
               /\ \E sorted \in SortOutcomes(SelectSeq(store,
                                   LAMBDA sn : sn.id \notin unreadable)) :
                    /\ listing' = sorted
                    /\ cleanLog' = [cleanLog EXCEPT
                                      !.visited = Append(@, CurVM),
                                      !.store = store, !.listed = sorted]
               /\ ci' = 1
               /\ opc' = "prune"
               /\ UNCHANGED <<failed, idx>>
  /\ UNCHANGED <<build, flags, vms, formerState, deferred, exitCode, hist>>
  /\ UNCHANGED <<vmState, pending, interf, engineVars, apiVars>>

\* as Exceeding, but one snapshot more is kept
ExceedingKeepsOneMore(n, k) == n - k - 1

\* as Exceeding, but the keep count is left out
ExceedingIgnoresKeep(n, k) == n

\* "len(snapshots)-keepVersions": the number of snapshots beyond those kept
Exceeding(n, k) == n - k

\* the anonymous function of the loop body returns, and the loop goes on
\* with the next domain
CleanReturn ==
  /\ idx' = idx + 1
  /\ opc' = "loop"

\* nothing (more) is to be removed of this domain
CleanPruneDone ==
  /\ build = "clean" /\ opc = "prune"
  /\ \/ Len(listing) <= flags.keep
     \/ ci > Exceeding(Len(listing), flags.keep)
  /\ CleanReturn
  /\ cleanLog' = [cleanLog EXCEPT !.done = "returned"]
  /\ UNCHANGED <<build, flags, vms, failed, formerState, deferred, exitCode, hist>>
  /\ UNCHANGED <<hyperVars, engineVars, apiVars, snaps, listing, ci>>

\* the answers to "Remove snapshot? [y/n]": none is asked for with -y; the
\* standard input can be at its end
Answers == IF flags.assumeYes THEN {"yes"} ELSE {"yes", "no", "eof"}

\* what is noted of the snapshot the deletion loop is at
Decided(what) ==
  [cleanLog EXCEPT !.decisions = Append(@, [snap |-> listing[ci], res |-> what])]

\* as OnDeleteResult, but a failed deletion lets the loop go on with the next
\* snapshot
OnDeleteResultGoesOn(res) ==
  /\ faults' = IF res = "error" THEN faults + 1 ELSE faults
  /\ cleanLog' = Decided(res)
  /\ snaps' = IF res = "ok"
              THEN SelectSeq(snaps, LAMBDA sn : sn.id # listing[ci].id)
              ELSE snaps
  /\ failed' = (failed \/ res = "error")
  /\ ci' = ci + 1
  /\ UNCHANGED <<idx, opc, exitCode>>

\* snapshots[i].Instance.Delete(0) returned: a failed deletion sets the flag
\* and returns from the anonymous function
OnDeleteResult(res) ==
  /\ faults' = IF res = "error" THEN faults + 1 ELSE faults
  /\ snaps' = IF res = "ok"
              THEN SelectSeq(snaps, LAMBDA sn : sn.id # listing[ci].id)
              ELSE snaps
  /\ IF res = "error"
     THEN /\ failed' = TRUE
          /\ CleanReturn
          /\ cleanLog' = [Decided(res) EXCEPT !.done = "returned",
                                               !.aborted = Append(@, CurVM)]
          /\ UNCHANGED <<ci, exitCode>>
     ELSE /\ cleanLog' = Decided(res)
          /\ ci' = ci + 1
          /\ UNCHANGED <<failed, idx, opc, exitCode>>

\* as OnDeclined, but a declined deletion is taken for a failed one: the
\* flag is set and the anonymous function returns
OnDeclinedSkipsVM ==
  /\ failed' = TRUE
  /\ CleanReturn
  /\ cleanLog' = [Decided("declined") EXCEPT !.done = "returned"]
  /\ UNCHANGED <<faults, snaps, ci, exitCode>>

\* confirm() returned false: "skipping removal of snapshot", and the loop
\* goes on with the next snapshot
OnDeclined ==
  /\ cleanLog' = Decided("declined")
  /\ ci' = ci + 1
  /\ UNCHANGED <<faults, snaps, failed, idx, opc, exitCode>>

\* one pass of the deletion loop: the confirmation, the deletion
CleanPruneNext ==
  /\ build = "clean" /\ opc = "prune"
  /\ Len(listing) > flags.keep
  /\ ci <= Exceeding(Len(listing), flags.keep)
  /\ \E answer \in Answers :
       CASE answer = "eof" ->
              /\ opc' = "exited" /\ exitCode' = "1"
              /\ UNCHANGED <<faults, snaps, failed, idx, ci, cleanLog>>
         [] answer = "no" -> OnDeclined
         [] answer = "yes" ->
              \E res \in PlainOutcomes : OnDeleteResult(res)
  /\ UNCHANGED <<build, flags, vms, formerState, deferred, hist>>
  /\ UNCHANGED <<vmState, pending, interf, engineVars, apiVars, listing>>

\* the flags cleanRun can be started with
CleanFlags ==
  {[shutdown |-> FALSE, force |-> FALSE, timeout |-> 0,
    snapshot |-> FALSE, keep |-> k, assumeYes |-> y] :
     k \in -1..MaxKeep, y \in BOOLEAN}

InitClean ==
  /\ vmState \in {[v \in VMs |-> s] : s \in {RUNNING, SHUTOFF}}
  /\ build = "clean"
  /\ flags \in CleanFlags
  /\ CommandStarts

NextClean ==
  \/ CleanCheckFlags \/ ListVMs
  \/ CleanLoop \/ CleanListSnapshots \/ CleanPruneNext \/ CleanPruneDone
  \/ Finish \/ Unwind

SpecClean == InitClean /\ [][NextClean]_vars

\* ------------------------------------------------------------------------
\* Properties of cleanRun
\* ------------------------------------------------------------------------
\* the pruning of the domain the loop was at is over
Pruned == build = "clean" /\ cleanLog.done = "returned"

\* the snapshots a deletion was called on, in the order of the calls
Attempted ==
  LET called == SelectSeq(cleanLog.decisions, LAMBDA d : d.res # "declined")
  IN  [i \in 1..Len(called) |-> called[i].snap]

\* every deletion was accepted and succeeded
AllDeleted == \A i \in 1..Len(cleanLog.decisions) : cleanLog.decisions[i].res = "ok"

\* a deletion failed
DeletionFailed == \E i \in 1..Len(cleanLog.decisions) : cleanLog.decisions[i].res = "error"

\* the number of snapshots to remove of n with keep count k
ToRemove(n, k) == IF n - k > 0 THEN n - k ELSE 0

\* C4: when every deletion was accepted and succeeded, the deletions of a
\* domain were called on the first max(0, len(S)-k) entries of the listing S,
\* in the order of S, and on nothing when k >= len(S); these are gone from the
\* hypervisor and nothing else is; in a listing that is ordered oldest to
\* newest they are the oldest ones, removed oldest first.
C4_PrunesOldest ==
  (Pruned /\ AllDeleted) =>
    LET S == cleanLog.listed
        m == ToRemove(Len(S), flags.keep)
    IN  /\ Attempted = SubSeq(S, 1, m)
        /\ flags.keep >= Len(S) => Attempted = <<>>
        /\ snaps = SelectSeq(cleanLog.store,
                     LAMBDA sn : \A i \in 1..m : S[i].id # sn.id)
        /\ (\A i, j \in 1..Len(S) : i < j => S[i].time <= S[j].time)
             => /\ \A i \in 1..m, j \in (m + 1)..Len(S) : S[i].time <= S[j].time
                /\ \A i, j \in 1..Len(Attempted) :
                     i < j => Attempted[i].time <= Attempted[j].time

\* C4 witness: of the snapshots of the times 10, 20 and 30 with keep count 1,
\* those of 10 and 20 were deleted, in this order, and that of 30 is left
C4_Witness ==
  /\ Pruned /\ AllDeleted /\ flags.keep = 1
  /\ Len(cleanLog.listed) = 3
  /\ [i \in 1..3 |-> cleanLog.listed[i].time] = <<10, 20, 30>>
  /\ [i \in 1..Len(Attempted) |-> Attempted[i].time] = <<10, 20>>
  /\ [i \in 1..Len(snaps) |-> snaps[i].time] = <<30>>

\* C5 as stated: after a failed deletion the flag is set and every deletion
\* candidate of the domain was still decided on.
C5_FailureDoesNotAbort ==
  (Pruned /\ DeletionFailed) =>
    /\ failed
    /\ Len(cleanLog.decisions) = ToRemove(Len(cleanLog.listed), flags.keep)

\* C5 as amended: a failed deletion sets the flag and ends the deletions of
\* that domain (the failed one is the last decision of the domain, whatever
\* candidates are left); the loop goes on with the following domains, so when
\* it is over every matched domain was visited.
C5_FailureSkipsRestOfVM ==
  /\ (Pruned /\ DeletionFailed) =>
       /\ failed
       /\ cleanLog.decisions[Len(cleanLog.decisions)].res = "error"
       /\ \A i \in 1..(Len(cleanLog.decisions) - 1) :
            cleanLog.decisions[i].res # "error"
       /\ idx = Len(cleanLog.visited) + 1
       /\ cleanLog.aborted # <<>>
       /\ cleanLog.aborted[Len(cleanLog.aborted)] = vms[idx - 1]
  /\ (build = "clean" /\ opc \in {"unwind", "exited"} /\ vms # <<>>
        /\ idx > Len(vms))
       => cleanLog.visited = vms

\* C5 witness: a deletion of the first domain failed; the second domain was
\* visited and two snapshots of it were deleted
C5_Witness ==
  /\ Pruned /\ failed /\ AllDeleted
  /\ vms = <<1, 2>> /\ cleanLog.aborted = <<1>> /\ cleanLog.visited = vms
  /\ Len(cleanLog.decisions) = 2
  /\ Len(snaps) = Len(cleanLog.store) - 2

\* ------------------------------------------------------------------------
\* ListMatchingVMs and VM.ListMatchingSnapshots: regular expressions, names,
\* the enumeration of the hypervisor
\* ------------------------------------------------------------------------
\* the names of the entities, as byte strings: "a", "ab", "b"
Names == {<<97>>, <<97, 98>>, <<98>>}

\* the creation times of the snapshots that are listed
ListedTimes == {9, 10, 20}

\* a regular expression, as far as the model follows the syntax: a literal
\* text, anchored at the begin (^) and/or the end ($) of the name or not; a
\* string that is no regular expression has valid = FALSE
Pattern(valid, bol, text, eol) ==
  [valid |-> valid, bol |-> bol, text |-> text, eol |-> eol]

\* ".*" (and ""), "a", "^a$", "b$", "^$" and "("
Patterns ==
  {Pattern(TRUE, FALSE, <<>>, FALSE), Pattern(TRUE, FALSE, <<97>>, FALSE),
   Pattern(TRUE, TRUE, <<97>>, TRUE), Pattern(TRUE, FALSE, <<98>>, TRUE),
   Pattern(TRUE, TRUE, <<>>, TRUE), Pattern(FALSE, FALSE, <<>>, FALSE)}

\* the argument lists (regexes []string) of a call
PatternSets ==
  UNION {[1..n -> Patterns] : n \in 0..MaxPatterns}

\* regexp.Compile returned no error
Compiles(p) == p.valid

\* regex.Find([]byte(name)) != nil: the expression matches somewhere in name
Find(p, name) ==
  \E from \in 1..(Len(name) + 1) :
    LET to == from + Len(p.text) - 1
    IN  /\ to <= Len(name)
        /\ SubSeq(name, from, to) = p.text
        /\ p.bol => from = 1
        /\ p.eol => to = Len(name)

\* as Found, but only the first expression is tried
FoundByFirst(exprs, name) == exprs # <<>> /\ Find(Head(exprs), name)

\* "for _, regex := range exprs { if regex.Find(..) != nil { found = true;
\* break } }"
RECURSIVE Found(_, _)
Found(exprs, name) ==
  IF exprs = <<>> THEN FALSE
  ELSE IF Find(Head(exprs), name) THEN TRUE
  ELSE Found(Tail(exprs), name)

\* as ArgumentError, but an empty argument list is accepted
ArgumentErrorAcceptsEmpty(regexes) ==
  IF \E k \in 1..Len(regexes) : ~Compiles(regexes[k]) THEN "InvalidPattern"
  ELSE "nil"

\* the argument validity checking: every string is compiled, then the
\* number of expressions is looked at
ArgumentError(regexes) ==
  IF \E k \in 1..Len(regexes) : ~Compiles(regexes[k]) THEN "InvalidPattern"
  ELSE IF Len(regexes) = 0 THEN "NoPatternSpecified"
  ELSE "nil"

\* what the hypervisor can hold of a kind, in the order in which
\* ListAllDomains / ListAllSnapshots enumerates it; names are unique
Entities(kind) ==
  UNION {{[i \in 1..n |-> [id |-> i, name |-> nm[i], time |-> tm[i]]] :
            nm \in {f \in [1..n -> Names] :
                      \A i, j \in 1..n : i # j => f[i] # f[j]},
            tm \in [1..n -> IF kind = "vm" THEN {0} ELSE ListedTimes]} :
           n \in 0..MaxEntities}

\* VMSorter.Less
VMLess(x, y) == StringLess(x.name, y.name)

\* what sort.Sort can make of the matched domains
VMSortOutcomes(q) ==
  {p \in Rearrangements(q) :
     \A i, j \in 1..Len(p) : i < j => ~VMLess(p[j], p[i])}

\* a call of a listing primitive begins
NewListing(kind, caller, regexes, store) ==
  [NoListing EXCEPT !.pc = "compile", !.kind = kind, !.caller = caller,
                    !.regexes = regexes, !.store = store]

\* a call to the hypervisor, noted
HciCall(l, op, id, res) ==
  [l EXCEPT !.hci = Append(@, [op |-> op, id |-> id, res |-> res])]

\* "return nil, err"
ListFails(l, e) == [l EXCEPT !.pc = "returned", !.err = e]

\* the argument validity checking
ListCompile ==
  /\ lm.pc = "compile"
  /\ LET e == ArgumentError(lm.regexes)
     IN  lm' = IF e # "nil" THEN ListFails(lm, e)
               ELSE [lm EXCEPT !.pc = IF lm.kind = "vm" THEN "connect"
                                      ELSE "enumerate"]
  /\ UNCHANGED <<hyperVars, engineVars, hpc, results, cmdVars, snapCall>>

\* libvirt.NewConnect("qemu:///system"), of ListMatchingVMs only
ListConnect ==
  /\ lm.pc = "connect"
  /\ \E res \in PlainOutcomes :
       /\ faults' = IF res = "error" THEN faults + 1 ELSE faults
       /\ lm' = IF res = "error"
                THEN ListFails(HciCall(lm, "NewConnect", 0, res), "ConnectFailed")
                ELSE [HciCall(lm, "NewConnect", 0, res) EXCEPT !.pc = "enumerate"]
  /\ UNCHANGED <<vmState, pending, interf, engineVars, hpc, results, cmdVars, snapCall>>

\* conn.ListAllDomains(0) / vm.Instance.ListAllSnapshots(0): a handle is
\* acquired for everything enumerated
ListEnumerate ==
  /\ lm.pc = "enumerate"
  /\ \E res \in PlainOutcomes :
       /\ faults' = IF res = "error" THEN faults + 1 ELSE faults
       /\ lm' = IF res = "error"
                THEN ListFails(HciCall(lm, "ListAll", 0, res), "ListFailed")
                ELSE [HciCall(lm, "ListAll", 0, res) EXCEPT
                        !.pc = "inspect", !.instances = lm.store, !.i = 1,
                        !.held = {lm.store[k].id : k \in 1..Len(lm.store)}]
  /\ UNCHANGED <<vmState, pending, interf, engineVars, hpc, results, cmdVars, snapCall>>

\* one pass of the loop over the instances: the descriptor is read (an
\* unreadable one skips the instance), the name is matched, the instance is
\* kept or freed
ListInspect ==
  /\ lm.pc = "inspect" /\ lm.i <= Len(lm.instances)
  /\ LET e == lm.instances[lm.i]
     IN  \E res \in PlainOutcomes :
           /\ faults' = IF res = "error" THEN faults + 1 ELSE faults
           /\ lm' =
                LET l == [HciCall(lm, "GetXMLDesc", e.id, res) EXCEPT !.i = @ + 1]
                IN  IF res = "error"
                    THEN [l EXCEPT !.unreadable = @ \cup {e.id}]
                    ELSE IF Found(lm.regexes, e.name)
                    THEN [l EXCEPT !.matched = Append(@, e)]
                    ELSE [HciCall(l, "Free", e.id, "ok") EXCEPT
                            !.held = @ \ {e.id}]
  /\ UNCHANGED <<vmState, pending, interf, engineVars, hpc, results, cmdVars, snapCall>>

\* the loop is over: sort.Sort(&sorter), "return matched.., nil"
ListSort ==
  /\ lm.pc = "inspect" /\ lm.i > Len(lm.instances)
  /\ \E sorted \in (IF lm.kind = "vm" THEN VMSortOutcomes(lm.matched)
                    ELSE SortOutcomes(lm.matched)) :
       lm' = [lm EXCEPT !.pc = "returned", !.err = "nil", !.result = sorted]
  /\ UNCHANGED <<hyperVars, engineVars, hpc, results, cmdVars, snapCall>>

\* every step of the listing primitives
ListStep ==
  \/ ListCompile \/ ListConnect \/ ListEnumerate \/ ListInspect \/ ListSort

\* ------------------------------------------------------------------------
\* VM.CreateSnapshot(prefix, description)
\* ------------------------------------------------------------------------
\* "^" + descriptor.Name + "$"
ExactPattern(name) == Pattern(TRUE, TRUE, name, TRUE)

\* the names in use in a store of snapshots
NamesOf(store) == {store[k].name : k \in 1..Len(store)}

\* a candidate name is made up (prefix + namesgenerator.GetRandomName(0)) and
\* looked for among the snapshots of the domain
SnapGenerate ==
  /\ snapCall.pc = "generate"
  /\ \E name \in Names :
       /\ snapCall' = [snapCall EXCEPT !.candidate = name, !.pc = "query"]
       /\ lm' = NewListing("snapshot", "create", <<ExactPattern(name)>>,
                           snapCall.store)
  /\ UNCHANGED <<hyperVars, engineVars, hpc, results, cmdVars>>

\* as OnQueryResult, but the candidate is used whether it was found or not
OnQueryResultIgnoresCollision(c, err, found) ==
  IF err # "nil"
  THEN [c EXCEPT !.pc = "returned", !.err = err]
  ELSE [c EXCEPT !.pc = "create",
                 !.lastQuery = [name |-> c.candidate, found |-> found]]

\* what CreateSnapshot does with the result of vm.ListMatchingSnapshots(regex)
OnQueryResult(c, err, found) ==
  IF err # "nil"
  THEN [c EXCEPT !.pc = "returned", !.err = err]
  ELSE IF found = 0
  THEN [c EXCEPT !.pc = "create",
                 !.lastQuery = [name |-> c.candidate, found |-> found]]
  ELSE [c EXCEPT !.pc = "generate",
                 !.lastQuery = [name |-> c.candidate, found |-> found],
                 !.inUse = @ \cup {c.candidate},
                 !.retries = IF @ < MaxRetries THEN @ + 1 ELSE @]

\* vm.ListMatchingSnapshots(regex) returned to CreateSnapshot; the handles of
\* the snapshots it returned stay with CreateSnapshot, which only counts them
SnapQueryReturn ==
  /\ snapCall.pc = "query" /\ lm.pc = "returned" /\ lm.caller = "create"
  /\ snapCall' =
       [OnQueryResult(snapCall, lm.err, Len(lm.result)) EXCEPT
          !.held = @ \cup {lm.result[k].id : k \in 1..Len(lm.result)}]
  /\ lm' = NoListing
  /\ UNCHANGED <<hyperVars, engineVars, hpc, results, cmdVars>>

\* vm.Instance.CreateSnapshotXML(xml, 0): the hypervisor refuses a name that
\* is in use
SnapCreate ==
  /\ snapCall.pc = "create"
  /\ \E res \in (IF snapCall.candidate \in NamesOf(snapCall.store)
                 THEN {"refused"} ELSE PlainOutcomes),
        t \in ListedTimes :
       /\ faults' = IF res = "error" THEN faults + 1 ELSE faults
       /\ snapCall' =
            [snapCall EXCEPT
               !.pc = "returned",
               !.submitted = Append(@, snapCall.candidate),
               !.err = IF res = "ok" THEN "nil" ELSE "SnapshotCreateFailed",
               !.store = IF res = "ok"
                         THEN Append(@, [id |-> Len(@) + 1,
                                         name |-> snapCall.candidate,
                                         time |-> t])
                         ELSE @]
  /\ UNCHANGED <<vmState, pending, interf, engineVars, hpc, results, cmdVars, lm>>

\* ------------------------------------------------------------------------
\* The API driver of the listing primitives and of CreateSnapshot
\* ------------------------------------------------------------------------
CallListMatching ==
  /\ hpc = "idle"
  /\ \E kind \in {"vm", "snapshot"}, regexes \in PatternSets :
       \E store \in Entities(kind) :
         lm' = NewListing(kind, "api", regexes, store)
  /\ hpc' = "listing"
  /\ UNCHANGED <<hyperVars, engineVars, results, cmdVars, snapCall>>

CallCreateSnapshot ==
  /\ hpc = "idle"
  /\ \E store \in Entities("snapshot") :
       snapCall' = [NoSnapshotCall EXCEPT !.pc = "generate", !.store = store]
  /\ hpc' = "snapshotting"
  /\ UNCHANGED <<hyperVars, engineVars, results, cmdVars, lm>>

VirtReturn ==
  /\ \/ hpc = "listing" /\ lm.pc = "returned"
     \/ hpc = "snapshotting" /\ snapCall.pc = "returned"
  /\ hpc' = "done"
  /\ UNCHANGED <<hyperVars, engineVars, results, cmdVars, virtVars>>

InitVirt ==
  /\ vmState = [v \in VMs |-> RUNNING]
  /\ pending = {}
  /\ interf = 0 /\ faults = 0
  /\ stack = <<>> /\ ret = NoRet
  /\ calls = <<>> /\ queries = 0 /\ warns = <<>>
  /\ hpc = "idle" /\ results = <<>>
  /\ NoCommand

NextVirt ==
  \/ CallListMatching \/ CallCreateSnapshot \/ VirtReturn
  \/ ListStep
  \/ SnapGenerate \/ SnapQueryReturn \/ SnapCreate

SpecVirt == InitVirt /\ [][NextVirt]_vars

\* ------------------------------------------------------------------------
\* Properties of the listing primitives and of CreateSnapshot
\* ------------------------------------------------------------------------
\* a call of a listing primitive made through the API returned
Listed == lm.pc = "returned" /\ lm.caller = "api"
ListedOk == Listed /\ lm.err = "nil"

\* the entities of the call whose descriptor could be read
Readable == {lm.store[k] : k \in 1..Len(lm.store)} \ 
            {e \in {lm.store[k] : k \in 1..Len(lm.store)} : e.id \in lm.unreadable}

\* the entities the call returned
Selected == {lm.result[k] : k \in 1..Len(lm.result)}

\* what the call would select with the one expression p
SelectedBy(p) == {e \in Readable : Found(<<p>>, e.name)}

\* C13: a successful call returns, of the entities whose descriptor could be
\* read, exactly those whose name matches at least one expression of the
\* list; that is the union of what the single expressions select; nothing
\* is returned twice.
C13_SelectionIsUnion ==
  ListedOk =>
    /\ Selected = {e \in Readable :
                     \E k \in 1..Len(lm.regexes) : Find(lm.regexes[k], e.name)}
    /\ Selected = UNION {SelectedBy(lm.regexes[k]) : k \in 1..Len(lm.regexes)}
    /\ Cardinality(Selected) = Len(lm.result)

\* C13 witness: of "a", "ab" and "b" the expressions "^a$" and "b$" select
\* "a" by the first, "ab" and "b" by the second
C13_Witness ==
  /\ ListedOk /\ faults = 0
  /\ lm.regexes = <<Pattern(TRUE, TRUE, <<97>>, TRUE),
                    Pattern(TRUE, FALSE, <<98>>, TRUE)>>
  /\ Cardinality(Selected) = 3
  /\ Cardinality(SelectedBy(lm.regexes[1])) = 1
  /\ Cardinality(SelectedBy(lm.regexes[2])) = 2

\* C14: a call fails with InvalidPattern when one of its strings is no
\* regular expression and with NoPatternSpecified when it was given none;
\* then the hypervisor was not called (no connect, no enumeration, no
\* descriptor read) and no handle is held; the errors occur in no other case.
C14_ArgumentErrorsBeforeAnyCall ==
  Listed =>
    /\ (\E k \in 1..Len(lm.regexes) : ~lm.regexes[k].valid)
         <=> lm.err = "InvalidPattern"
    /\ lm.regexes = <<>> <=> lm.err = "NoPatternSpecified"
    /\ lm.err \in {"InvalidPattern", "NoPatternSpecified"} =>
         /\ lm.hci = <<>> /\ lm.held = {} /\ lm.instances = <<>>
         /\ lm.result = <<>> /\ faults = 0

\* C14 witness: the second of two strings is no regular expression, and the
\* hypervisor holds entities the first would match
C14_Witness ==
  /\ Listed /\ lm.err = "InvalidPattern" /\ lm.hci = <<>>
  /\ Len(lm.regexes) = 2 /\ lm.regexes[1].valid /\ ~lm.regexes[2].valid
  /\ Len(lm.store) = 2

\* the domains are returned in ascending order of their names
VMsInNameOrder ==
  (ListedOk /\ lm.kind = "vm") =>
    \A i, j \in 1..Len(lm.result) :
      i < j => StringLess(lm.result[i].name, lm.result[j].name)

\* C15 as stated: on success domains are returned in ascending lexical order
\* of their names, snapshots in ascending order of their creation times as
\* integers, those of equal creation time in the order of the enumeration.
C15_DeterministicOrder ==
  /\ VMsInNameOrder
  /\ (ListedOk /\ lm.kind = "snapshot") =>
       \A i, j \in 1..Len(lm.result) :
         i < j => \/ lm.result[i].time < lm.result[j].time
                  \/ /\ lm.result[i].time = lm.result[j].time
                     /\ lm.result[i].id < lm.result[j].id

\* C15, the state that breaks it: the snapshot created at 10 is returned
\* before the one created at 9
C15_Witness ==
  /\ ListedOk /\ lm.kind = "snapshot" /\ faults = 0
  /\ Len(lm.result) = 2
  /\ lm.result[1].time = 10 /\ lm.result[2].time = 9

\* a call of CreateSnapshot is under way or returned
SnapshotCalled == snapCall.pc # "none"

\* C20: a creation is submitted only for the candidate that the last query
\* looked for and did not find (and, no hypervisor call having failed, that
\* no snapshot of the domain bears); a candidate that was found is never
\* submitted: another one is made up and looked for, as often as it takes
\* (the call ends without a creation when such a query fails).
C20_SubmitsOnlyUnusedName ==
  SnapshotCalled =>
    /\ snapCall.pc = "create" =>
         snapCall.lastQuery = [name |-> snapCall.candidate, found |-> 0]
    /\ snapCall.submitted # <<>> =>
         /\ snapCall.submitted = <<snapCall.lastQuery.name>>
         /\ snapCall.lastQuery.found = 0
         /\ snapCall.pc = "returned"
    /\ faults = 0 =>
         \A k \in 1..Len(snapCall.submitted) :
           snapCall.submitted[k] \notin snapCall.inUse
    /\ snapCall.lastQuery.found > 0 =>
         /\ \/ snapCall.pc \in {"generate", "query"}
            \/ snapCall.pc = "returned" /\ snapCall.err = "ListFailed"
         /\ snapCall.submitted = <<>>
         /\ snapCall.lastQuery.name \in snapCall.inUse
    /\ (snapCall.pc = "create" /\ faults = 0) =>
         snapCall.candidate \notin NamesOf(snapCall.store)

\* C20 witness: after candidates were found in use, more than once, the
\* snapshot was created under a name that was free
C20_Witness ==
  /\ snapCall.pc = "returned" /\ snapCall.err = "nil"
  /\ snapCall.retries = MaxRetries
  /\ Cardinality(snapCall.inUse) = 2
  /\ snapCall.submitted = <<snapCall.candidate>>
  /\ snapCall.candidate \in NamesOf(snapCall.store)
  /\ Len(snapCall.store) = 3

\* ------------------------------------------------------------------------
\* create and export side by side
\* ------------------------------------------------------------------------
InitShutdownCommands == InitCreate \/ InitExport

NextShutdownCommands == NextCreate \/ NextExport

SpecShutdownCommands == InitShutdownCommands /\ [][NextShutdownCommands]_vars

\* ------------------------------------------------------------------------
\* Properties of the commands: exit status, aggregation of failures, handles
\* ------------------------------------------------------------------------
\* the selection of the domains succeeded
Selection == vms # <<>>

\* an operation on a domain failed: its shutdown or restoring Transition, its
\* snapshot, its export, a deletion or the listing of its snapshots
OperationFailed ==
  \/ \E v \in VMs : \/ hist[v].down = "failed"
                    \/ hist[v].restored = "failed"
                    \/ hist[v].snapshot = "error"
                    \/ hist[v].exported = "error"
  \/ cleanLog.aborted # <<>>
  \/ cleanLog.done = "skipped"

\* C16 as stated, for the runs whose selection of domains succeeded: the
\* exit status is non-zero if and only if an operation on a domain failed;
\* a failed restoring Transition makes it non-zero.
C16_ExitStatusTellsFailure ==
  (Exited /\ Selection) =>
    /\ (exitCode # "0") <=> OperationFailed
    /\ (\E v \in VMs : hist[v].restored = "failed") => exitCode # "0"

\* C16, the state that breaks it: the export of every domain succeeded, the
\* restoring Transition deferred to the return of exportRun failed, and the
\* process exited with status 0
C16_Witness ==
  /\ build = "export-block" /\ Exited /\ exitCode = "0" /\ failed
  /\ \E v \in VMs : hist[v].restored = "failed"
  /\ \A v \in VMs : hist[v].exported # "error" /\ hist[v].down # "failed"

\* C17 as stated, for clean: when the process has exited after a successful
\* selection, every selected domain was processed, in the order of the
\* selection, also after a failure of a step (listing, deletion, prompt) for
\* an earlier one, and the flag is set when a step failed.
C17_EveryVMProcessed ==
  (build = "clean" /\ Exited /\ Selection) =>
    /\ cleanLog.visited = vms
    /\ OperationFailed => failed

\* C17, the state that breaks it: the standard input ended at the prompt for
\* a snapshot of the first of two domains; the process exited, the second
\* domain was never looked at
C17_Witness ==
  /\ build = "clean" /\ Exited /\ exitCode = "1"
  /\ vms = <<1, 2>> /\ cleanLog.visited = <<1>>
  /\ ~flags.assumeYes /\ ~failed /\ faults = 0

\* C18: a domain whose Transition to Shutoff failed, in create --shutdown or
\* in export, gets no snapshot, no export and no restoring Transition; the
\* flag is set; the loop goes on with the next domain.
C18_FailedShutdownSkipsVM ==
  \A k \in 1..Len(vms) :
    hist[vms[k]].down = "failed" =>
      /\ hist[vms[k]].snapshot = "none"
      /\ hist[vms[k]].exported = "none"
      /\ hist[vms[k]].restores = <<>>
      /\ hist[vms[k]].former = "none"
      /\ failed
      /\ idx > k
      /\ (Exited /\ k < Len(vms)) => hist[vms[k + 1]].down # "none"

\* C18 witness: the shutdown of the first domain failed; the second was shut
\* off, exported and restored
C18_Witness ==
  /\ build = "export-closure" /\ Exited /\ vms = <<1, 2>>
  /\ hist[1].down = "failed" /\ hist[1].exported = "none"
  /\ hist[2].down = "ok" /\ hist[2].exported = "ok"
  /\ hist[2].restores = <<hist[2].former>>

\* C19 as stated: when the process has exited, the handle of every selected
\* domain was freed exactly once.
C19_HandlesFreedOnce ==
  (Exited /\ Selection) =>
    \A k \in 1..Len(vms) : hist[vms[k]].freed = 1

\* C19, the state that breaks it: a deletion failed, clean exited through
\* logger.Fatal with FreeVMs still deferred, and no handle was freed
C19_Witness ==
  /\ build = "clean" /\ Exited /\ exitCode = "1" /\ failed
  /\ vms = <<1, 2>> /\ cleanLog.visited = vms
  /\ deferred = <<DeferFreeVMs>>
  /\ \A v \in VMs : hist[v].freed = 0

\* ------------------------------------------------------------------------
\* The forced shutdown scenario of create
\* ------------------------------------------------------------------------
\* the call of a hypervisor operation on vm with result res
CallOf(op, vm, res) == [op |-> op, vm |-> vm, res |-> res]

\* create --shutdown --force is at a domain of the selection
ForcedCreate ==
  /\ build = "create" /\ flags.shutdown /\ flags.force
  /\ opc \in {"shut", "snap", "restore"}

\* the Transition to Shutoff of the domain returned; the domain had been
\* observed running, every request was accepted and no poll saw it shut off
StayedRunning ==
  /\ opc = "shut" /\ stack = <<>> /\ Returned
  /\ ret.observed = RUNNING /\ ret.lastReq = "ok" /\ ret.polled # SHUTOFF

\* the domain of the loop was destroyed by its Transition to Shutoff, which
\* returned Running
Destroyed ==
  /\ hist[CurVM].down = "ok" /\ hist[CurVM].former = RUNNING
  /\ \E k \in DOMAIN calls : calls[k] = CallOf("Destroy", CurVM, "ok")

\* the three shutdown requests and the destroy, in this order
RoundsThenDestroy(res) ==
  [k \in 1..ShutdownRounds |-> CallOf("Shutdown", CurVM, "ok")]
    \o <<CallOf("Destroy", CurVM, res)>>

\* C21: create --shutdown --force on a domain that stays running through the
\* graceful rounds issues three shutdown requests and then one destroy; when
\* the destroy succeeded the snapshot is created once and then, whether or
\* not the snapshot failed, Transition to Running is called once, which
\* powers the domain on (no one else acting): the calls are, in this order,
\* three of Shutdown, Destroy, CreateSnapshot and Create.
C21_ForcedCreateScenario ==
  /\ (build = "create" /\ flags.shutdown /\ flags.force) =>
       \A v \in VMs : hist[v].snapshot = "error" =>
                         hist[v].restores = <<hist[v].former>>
  /\ ForcedCreate =>
      /\ StayedRunning =>
           /\ \E res \in {"ok", "invalid", "error"} :
                /\ calls = RoundsThenDestroy(res)
                /\ (ret.err = "nil") = (res = "ok")
           /\ ret.err = "nil" => ret.state = RUNNING /\ vmState[CurVM] = SHUTOFF
      /\ (opc = "snap" /\ Destroyed) =>
           calls = RoundsThenDestroy("ok")
      /\ (opc = "restore" /\ Destroyed) =>
           /\ SubSeq(calls, 1, ShutdownRounds + 1) = RoundsThenDestroy("ok")
           /\ hist[CurVM].snapshot \in {"ok", "error"}
           /\ calls[ShutdownRounds + 2]
                = CallOf("CreateSnapshot", CurVM, hist[CurVM].snapshot)
           /\ hist[CurVM].restores = <<RUNNING>>
           /\ stack # <<>> => stack[1].vm = CurVM /\ stack[1].to = RUNNING
           /\ stack # <<>> \/ Returned
           /\ (stack = <<>> /\ ReturnedAfterQuery /\ interf = 0) =>
                /\ Len(calls) = ShutdownRounds + 3
                /\ LastCall.op = "Create" /\ LastCall.vm = CurVM
                /\ (ret.err = "nil") = (LastCall.res = "ok")

\* C21 witness: the domain stayed running and was destroyed, its snapshot
\* failed, and it was powered on again all the same
C21_Witness ==
  /\ ForcedCreate /\ opc = "restore" /\ stack = <<>> /\ Returned
  /\ calls = RoundsThenDestroy("ok")
               \o <<CallOf("CreateSnapshot", CurVM, "error"),
                    CallOf("Create", CurVM, "ok")>>
  /\ hist[CurVM].former = RUNNING /\ hist[CurVM].snapAt = SHUTOFF
  /\ ret.err = "nil" /\ vmState[CurVM] = RUNNING

\* ------------------------------------------------------------------------
\* A selection that matches no domain
\* ------------------------------------------------------------------------
\* the expression "^$"
EmptyName == Pattern(TRUE, TRUE, <<>>, TRUE)

\* ListMatchingVMs was called with valid expressions none of which is found
\* in the name of a domain whose descriptor could be read
NothingMatches ==
  /\ Listed /\ lm.kind = "vm" /\ lm.regexes # <<>>
  /\ \A k \in 1..Len(lm.regexes) : lm.regexes[k].valid
  /\ \A e \in Readable : ~Found(lm.regexes, e.name)

\* C22, for the primitive alone: ListMatchingVMs with valid expressions that
\* match no name returns the empty sequence and no error, unless the
\* connection or the enumeration failed.
C22_SelectionReturnsEmpty ==
  NothingMatches =>
    /\ lm.result = <<>>
    /\ lm.err \in {"nil", "ConnectFailed", "ListFailed"}
    /\ faults = 0 => lm.err = "nil"

\* "^$" was given where domains exist; the result is empty, without error
C22_SelectionWitness ==
  /\ NothingMatches /\ lm.regexes = <<EmptyName>> /\ Len(lm.store) = MaxEntities
  /\ lm.err = "nil" /\ lm.result = <<>> /\ faults = 0

\* the command selected no domain: ListMatchingVMs returned the empty
\* sequence and no error
EmptySelection == vms = <<>> /\ deferred = <<DeferFreeVMs>>

\* C22 as stated, for the commands: a selection that matches no domain is
\* not an error, the process does not exit with the failure status for it.
C22_EmptySelectionIsNoError ==
  (Exited /\ EmptySelection) => exitCode # "1"

\* C22, the state that breaks it: clean selected no domain, nothing failed,
\* and the process exited with status 1
C22_Witness ==
  /\ build = "clean" /\ Exited /\ EmptySelection
  /\ exitCode = "1" /\ ~failed /\ faults = 0
  /\ cleanLog.visited = <<>>

\* ------------------------------------------------------------------------
\* Declined deletions
\* ------------------------------------------------------------------------
\* the deletion of the i-th candidate of the domain was declined
Declined(i) == cleanLog.decisions[i].res = "declined"

\* the hypervisor still holds the snapshot
Held(sn) == \E k \in 1..Len(snaps) : snaps[k] = sn

\* C23: in clean without -y a declined deletion is not an error: the flag is
\* set by failures only, the declined snapshot stays with the hypervisor, and
\* the loop goes on with the next candidate of the domain, so that, unless a
\* deletion fails, every candidate of the domain is decided on.
C23_DeclinedIsNoError ==
  build = "clean" =>
    /\ failed => faults > 0
    /\ \A i \in 1..Len(cleanLog.decisions) :
         /\ cleanLog.decisions[i].snap = cleanLog.listed[i]
         /\ Declined(i) =>
              /\ ~flags.assumeYes
              /\ Held(cleanLog.decisions[i].snap)
              /\ i = Len(cleanLog.decisions) =>
                   \/ opc = "prune" /\ ci = i + 1
                   \/ Exited \/ Pruned
    /\ (Pruned /\ ~DeletionFailed) =>
         Len(cleanLog.decisions) = ToRemove(Len(cleanLog.listed), flags.keep)

\* C23 witness: the deletion of the oldest snapshot was declined, the next
\* one was deleted, and clean ended with status 0
C23_Witness ==
  /\ build = "clean" /\ Exited /\ exitCode = "0" /\ ~failed /\ faults = 0
  /\ Len(cleanLog.decisions) = 2
  /\ Declined(1) /\ Held(cleanLog.decisions[1].snap)
  /\ cleanLog.decisions[2].res = "ok" /\ ~Held(cleanLog.decisions[2].snap)

\* ------------------------------------------------------------------------
\* The rounds of the graceful shutdown
\* ------------------------------------------------------------------------
\* the calls of Transition in progress that found the domain running and are
\* to shut it off
ShuttingOff ==
  {k \in DOMAIN stack :
     stack[k].observed = RUNNING /\ stack[k].to = SHUTOFF}

\* the shutdown requests among the hypervisor calls made so far
ShutdownsCalled == SelectSeq(calls, LAMBDA c : c.op = "Shutdown")

PollTime(n) == n * (SleepSeconds + PollLatency)

\* the call made through the API found the domain shutting down
FromShuttingDown ==
  /\ stack # <<>> /\ stack[1].observed = SHUTDOWN

\* C25: a call that found the domain Shutting-Down hands back Shutoff,
\* whatever its outcome.  To Shutoff it issues no state-changing call and
\* succeeds, on the first poll that observes Shutoff or on the first poll
\* after the timeout has elapsed.  To another target it first calls
\* Transition to Shutoff and then Transition to the target; with no one else
\* acting it issues no state-changing call before the first one has
\* returned, its first state-changing call is the power-on, which only a
\* call that observed Shutoff issues, and the calls of a success are those of
\* the transition from Shutoff to the target.
C25_ShuttingDownWaits ==
  /\ (ReturnedAfterQuery /\ ret.observed = SHUTDOWN) => ret.state = SHUTOFF
  /\ (TopReturned /\ ret.observed = SHUTDOWN /\ ret.to = SHUTOFF) =>
       /\ ret.err = "nil" /\ calls = <<>> /\ ret.destroys = 0
       /\ ret.site = (IF ret.polled = SHUTOFF THEN 256 ELSE 271)
       /\ ret.polled # SHUTOFF =>
            /\ PollTime(queries - 1) > TotalTimeout(ret.timeout)
            /\ PollTime(queries - 2) <= TotalTimeout(ret.timeout)
  /\ (FromShuttingDown /\ stack[1].to # SHUTOFF) =>
       /\ stack[1].pc \in {"sd_hop1", "sd_hop2"}
       /\ stack[1].pc = "sd_hop1" =>
            /\ interf = 0 => calls = <<>>
            /\ Len(stack) >= 2 => stack[2].to = SHUTOFF
       /\ (stack[1].pc = "sd_hop2" /\ Len(stack) >= 2) =>
            stack[2].to = stack[1].to
       /\ (interf = 0 /\ calls # <<>>) => calls[1].op = "Create"
  /\ (TopReturned /\ ret.observed = SHUTDOWN /\ ret.to # SHUTOFF
        /\ interf = 0 /\ ret.err = "nil") =>
       calls = IF ret.to = RUNNING
               THEN <<CallOf("Create", ret.vm, "ok")>>
               ELSE TwoCalls(ret.vm, ret.to)

\* C25 witness: the domain went down while the call waited, was powered on
\* and paused; the call hands back Shutoff
C25_Witness ==
  /\ TopReturned /\ ret.observed = SHUTDOWN /\ ret.to = PAUSED
  /\ ret.err = "nil" /\ ret.state = SHUTOFF /\ ret.site = 305
  /\ calls = TwoCalls(ret.vm, PAUSED) /\ vmState[ret.vm] = PAUSED
  /\ interf = 0 /\ faults = 0

\* C25, the other outcome of the wait: the timeout elapsed with the domain
\* still shutting down, and the call to Shutoff succeeded
C25_TimedOutWitness ==
  /\ TopReturned /\ ret.observed = SHUTDOWN /\ ret.to = SHUTOFF
  /\ ret.site = 271 /\ ret.err = "nil" /\ ret.state = SHUTOFF
  /\ ret.timeout = MaxTimeout /\ vmState[ret.vm] = SHUTDOWN

\* ------------------------------------------------------------------------
\* A blocked domain
\* ------------------------------------------------------------------------
\* the call made through the API found the domain blocked
FromBlocked == stack # <<>> /\ stack[1].observed = BLOCKED

\* C26: a call that found the domain Blocked waits: while it polls it has
\* issued no state-changing call, its polls have all seen Blocked and the
\* timeout, undivided, has not elapsed; on the first poll that does not see
\* Blocked it calls Transition to the target, which (no one else acting and
\* no query failing) starts from the state that poll saw; no state-changing
\* call is issued as long as the domain is blocked; when a poll sees Blocked
\* after the timeout has elapsed the call returns TransitionTimedOut, having
\* issued no state-changing call.
C26_BlockedWaits ==
  /\ FromBlocked =>
       LET f == stack[1] IN
         /\ f.pc \in {"bl_poll", "bl_hop"}
         /\ f.pc = "bl_poll" =>
              /\ calls = <<>>
              /\ f.polled \in {"none", BLOCKED}
              /\ f.elapsed = PollTime(queries - 1)
              /\ f.elapsed <= TotalTimeout(f.timeout)
         /\ f.pc = "bl_hop" =>
              /\ f.polled \notin {"none", BLOCKED}
              /\ Len(stack) >= 2 => stack[2].to = f.to
         /\ (interf = 0 /\ vmState[f.vm] = BLOCKED) => calls = <<>>
  /\ (TopReturned /\ ret.observed = BLOCKED) =>
       /\ ret.site \in {425, 436, 453}
       /\ ret.site = 453 =>
            /\ ret.err = "TransitionTimedOut" /\ ret.state = RUNNING
            /\ calls = <<>> /\ ret.polled = BLOCKED
            /\ PollTime(queries - 1) > TotalTimeout(ret.timeout)
            /\ PollTime(queries - 2) <= TotalTimeout(ret.timeout)
       /\ ret.site # 453 => ret.polled \notin {"none", BLOCKED}
       /\ (ret.site = 436 /\ interf = 0 /\ faults = 0) =>
            ret.mid = ret.polled
       /\ (interf = 0 /\ vmState[ret.vm] = BLOCKED) => calls = <<>>

\* C26 witness: the domain got its resource, the second poll saw it running
\* and it was paused from there
C26_Witness ==
  /\ TopReturned /\ ret.observed = BLOCKED /\ ret.to = PAUSED
  /\ ret.site = 436 /\ ret.err = "nil"
  /\ ret.polled = RUNNING /\ ret.mid = RUNNING /\ queries = 4
  /\ calls = <<CallOf("Suspend", ret.vm, "ok")>>
  /\ vmState[ret.vm] = PAUSED /\ interf = 0 /\ faults = 0

\* C26, the other outcome: the domain was blocked for the whole timeout
C26_TimedOutWitness ==
  /\ TopReturned /\ ret.observed = BLOCKED /\ ret.site = 453
  /\ ret.err = "TransitionTimedOut" /\ ret.timeout = MaxTimeout
  /\ calls = <<>> /\ vmState[ret.vm] = BLOCKED /\ interf = 0

\* ------------------------------------------------------------------------
\* Paused and PM-Suspended domains
\* ------------------------------------------------------------------------
Suspended == {PAUSED, PMSUSPENDED}

\* the call that brings a suspended domain back to Running
WakeOpFor(state) == IF state = PAUSED THEN "Resume" ELSE "PMWakeup"

\* the call made through the API found the domain suspended and is to bring
\* it to a target other than that state and Running
ComposedFromSuspended ==
  /\ stack # <<>> /\ stack[1].observed \in Suspended
  /\ stack[1].to \notin {stack[1].observed, RUNNING}

\* C27: for a domain found Paused (PM-Suspended), Transition to Running
\* issues exactly one resume (wake-up) and nothing else.  Transition to
\* another target calls Transition to Running and then Transition to the
\* target: with no one else acting the first state-changing call is the
\* resume (wake-up), the second hop starts from Running, and a success to
\* the other suspended state made exactly two calls; when the first hop
\* failed nothing follows its failed call.  Every such call hands back the
\* state it found, with the error if there was one.
C27_SuspendedViaRunning ==
  /\ (TopReturned /\ ret.observed \in Suspended /\ ret.to = RUNNING) =>
       /\ Len(calls) = 1 /\ calls[1].op = WakeOpFor(ret.observed)
       /\ (ret.err = "nil") = (calls[1].res = "ok")
       /\ ret.state = ret.observed
  /\ ComposedFromSuspended =>
       LET f == stack[1] IN
         /\ f.pc \in {"hop1", "hop2"}
         /\ (f.pc = "hop1" /\ Len(stack) >= 2) => stack[2].to = RUNNING
         /\ (f.pc = "hop2" /\ Len(stack) >= 2) => stack[2].to = f.to
         /\ (f.pc = "hop2" /\ interf = 0) =>
              calls # <<>> /\ calls[1] = CallOf(WakeOpFor(f.observed), f.vm, "ok")
  /\ (TopReturned /\ ret.observed \in Suspended
        /\ ret.to \notin {ret.observed, RUNNING}) =>
       /\ ret.state = ret.observed
       /\ ret.site \in {HopLines(ret.observed).err1,
                        HopLines(ret.observed).err2,
                        HopLines(ret.observed).ok}
       /\ (ret.err = "nil") = (ret.site = HopLines(ret.observed).ok)
       /\ interf = 0 =>
            /\ calls # <<>> => calls[1].op = WakeOpFor(ret.observed)
            /\ (ret.site = HopLines(ret.observed).err1) =
                 (calls = <<>> \/ calls[1].res # "ok")
            /\ ret.site = HopLines(ret.observed).err1 => Len(calls) <= 1
            /\ ret.err = "nil" => ret.mid = RUNNING
            /\ (ret.err = "nil" /\ ret.to \in Suspended) =>
                 calls = <<CallOf(WakeOpFor(ret.observed), ret.vm, "ok"),
                           CallOf(SuspendOpFor(ret.to), ret.vm, "ok")>>
            /\ (ret.to = SHUTOFF /\ Len(calls) >= 2) =>
                 calls[2].op = "Shutdown"

\* C27 witness: a PM-suspended domain was woken up and then paused
C27_Witness ==
  /\ TopReturned /\ ret.observed = PMSUSPENDED /\ ret.to = PAUSED
  /\ ret.err = "nil" /\ ret.state = PMSUSPENDED /\ ret.mid = RUNNING
  /\ calls = <<CallOf("PMWakeup", ret.vm, "ok"),
               CallOf("Suspend", ret.vm, "ok")>>
  /\ vmState[ret.vm] = PAUSED /\ interf = 0 /\ faults = 0

\* C27, the failed first hop: the resume of a paused domain that was to be
\* shut off failed; no shutdown was requested
C27_FirstHopFailedWitness ==
  /\ TopReturned /\ ret.observed = PAUSED /\ ret.to = SHUTOFF
  /\ ret.site = 331 /\ ret.err = "TransitionFailed" /\ ret.state = PAUSED
  /\ calls = <<CallOf("Resume", ret.vm, "error")>>
  /\ vmState[ret.vm] = PAUSED

\* ------------------------------------------------------------------------
\* A crashed domain
\* ------------------------------------------------------------------------
\* the call made through the API found the domain in `state` and was to
\* bring it to `to`
ReturnedFrom(state, to) ==
  TopReturned /\ ret.observed = state /\ ret.to = to

\* C28: Transition to Shutoff of a domain found Crashed returns at once,
\* without error and without a state-changing call, by the statement that
\* returns for a domain found Shutoff; it hands back the state it found and,
\* no one else acting, leaves the domain as it was.
C28_CrashedToShutoffIsNoOp ==
  \A s \in {CRASHED, SHUTOFF} :
    ReturnedFrom(s, SHUTOFF) =>
      /\ ret.err = "nil" /\ ret.site = 193 /\ ret.state = s
      /\ calls = <<>> /\ queries = 1 /\ warns = <<>>
      /\ interf = 0 => vmState[ret.vm] = s

\* C28 witness: a crashed domain was to be shut off
C28_Witness ==
  /\ ReturnedFrom(CRASHED, SHUTOFF) /\ ret.err = "nil" /\ calls = <<>>
  /\ vmState[ret.vm] = CRASHED /\ interf = 0 /\ faults = 0

\* C29 as stated: a call that found the domain Crashed and is to pause or
\* PM-suspend it does not perform the composed transition of a domain found
\* Shutoff: no power-on, and no suspend after it, is issued.
C29_CrashedIsNotComposed ==
  \A to \in Suspended :
    ReturnedFrom(CRASHED, to) =>
      \A k \in DOMAIN calls : calls[k].op \notin {"Create", SuspendOpFor(to)}

\* C29, the state that breaks it: a crashed domain was to be paused; it was
\* powered on and then suspended, as a domain that is shut off is
C29_Witness ==
  /\ ReturnedFrom(CRASHED, PAUSED) /\ ret.err = "nil" /\ ret.state = CRASHED
  /\ ret.site = 229 /\ calls = TwoCalls(ret.vm, PAUSED)
  /\ vmState[ret.vm] = PAUSED /\ interf = 0 /\ faults = 0

\* ------------------------------------------------------------------------
\* A domain in no known state
\* ------------------------------------------------------------------------
\* C30: a call with an allowed target whose initial state query succeeded
\* and returned NoState returns the InvalidVMState error at once: it made no
\* other query and no state-changing call, and it hands back NoState; the
\* call made through the API returns that error in no other case.
C30_NoStateIsInvalid ==
  /\ (ReturnedAfterQuery /\ ret.observed = NOSTATE) =>
       /\ ret.to \in AllowedTargets
       /\ ret.err = "InvalidVMState" /\ ret.site = 459
       /\ ret.state = NOSTATE
       /\ ret.requests = 0 /\ ret.destroys = 0 /\ ret.polled = "none"
       /\ ret.depth = 1 => calls = <<>> /\ queries = 1 /\ warns = <<>>
       /\ interf = 0 => vmState[ret.vm] = NOSTATE
  /\ (TopReturned /\ ret.err = "InvalidVMState") => ret.observed = NOSTATE

\* C30 witness: a domain without state was to be shut off, by force
C30_Witness ==
  /\ ReturnedFrom(NOSTATE, SHUTOFF) /\ ret.force
  /\ ret.err = "InvalidVMState" /\ ret.state = NOSTATE
  /\ calls = <<>> /\ queries = 1 /\ faults = 0
  /\ vmState[ret.vm] = NOSTATE

\* ------------------------------------------------------------------------
\* The handles of a listing
\* ------------------------------------------------------------------------
\* the handles the call acquired by the enumeration
Enumerated == {lm.instances[k].id : k \in 1..Len(lm.instances)}

\* the handles the call hands to its caller
ReturnedHandles == {lm.result[k].id : k \in 1..Len(lm.result)}

\* the handles the call freed
Released ==
  {lm.hci[k].id : k \in {j \in 1..Len(lm.hci) : lm.hci[j].op = "Free"}}

\* C31 as stated: when a listing returns successfully, every handle it
\* enumerated is either returned to the caller, unreleased, or was released;
\* none is left both unreturned and unreleased.
C31_NoHandleLeftBehind ==
  ListedOk =>
    /\ ReturnedHandles \cap Released = {}
    /\ Enumerated = ReturnedHandles \cup Released
    /\ lm.held = ReturnedHandles

\* C31, the state that breaks it: the descriptor of an enumerated entity
\* could not be read; the entity was skipped, its handle is neither returned
\* nor released
C31_Witness ==
  /\ ListedOk /\ lm.unreadable # {}
  /\ lm.unreadable \subseteq lm.held
  /\ lm.unreadable \cap (ReturnedHandles \cup Released) = {}
  /\ Len(lm.instances) = MaxEntities

\* what holds of the handles: those of the entities whose descriptor was read
\* are returned or released, none both; those of the others stay held
C31_ReadableHandlesAccounted ==
  ListedOk =>
    /\ ReturnedHandles \cap Released = {}
    /\ Enumerated \ lm.unreadable = ReturnedHandles \cup Released
    /\ lm.held = ReturnedHandles \cup lm.unreadable

\* ------------------------------------------------------------------------
\* C32: every snapshot handle obtained during an operation is released once
\* by the time the processing of the domain ends
\* ------------------------------------------------------------------------
SnapshotReturned == snapCall.pc = "returned"

\* C32: when CreateSnapshot has returned, none of the snapshot handles that
\* its name-collision queries obtained is still unreleased.
C32_QueriedHandlesReleased == SnapshotReturned => snapCall.held = {}

\* C32 witness: CreateSnapshot returned without error after a candidate was
\* found in use, and the handle of the snapshot found is still held
C32_Witness ==
  /\ SnapshotReturned /\ snapCall.err = "nil"
  /\ snapCall.inUse # {} /\ snapCall.held # {}
  /\ \A k \in 1..Len(snapCall.store) :
       snapCall.store[k].id \in snapCall.held =>
         snapCall.store[k].name \in snapCall.inUse

\* the handles a call of CreateSnapshot holds are those of the snapshots its
\* queries found under a candidate name
C32_HeldAreCollisions ==
  SnapshotCalled =>
    \A h \in snapCall.held :
      \E k \in 1..Len(snapCall.store) :
        snapCall.store[k].id = h /\ snapCall.store[k].name \in snapCall.inUse

\* ------------------------------------------------------------------------
\* C33: the domain is shut off when a transition to Shutoff succeeds
\* ------------------------------------------------------------------------
\* a call to Shutoff made through the API returned without error, no one
\* else having touched the domain
ShutoffSucceeded ==
  TopReturned /\ ret.to = SHUTOFF /\ ret.err = "nil" /\ interf = 0

\* C33: whenever Transition with target Shutoff returns without error (no
\* third party acting), the domain is in Shutoff or Crashed.
C33_ShutoffOnReturn ==
  ShutoffSucceeded => vmState[ret.vm] \in {SHUTOFF, CRASHED}

\* C33 witness: the domain was found shutting down, every poll of the wait
\* saw it so until the timeout elapsed, and the call returned without error
\* with the domain still shutting down
C33_Witness ==
  /\ ShutoffSucceeded /\ ret.observed = SHUTDOWN /\ ret.site = 271
  /\ ret.polled = SHUTDOWN /\ calls = <<>> /\ faults = 0
  /\ PollTime(queries - 1) > TotalTimeout(ret.timeout)
  /\ vmState[ret.vm] = SHUTDOWN

\* apart from the wait that timed out, a successful call to Shutoff leaves
\* the domain in Shutoff or Crashed
C33_ShutoffUnlessWaitTimedOut ==
  (ShutoffSucceeded /\ ret.site # 271) =>
    vmState[ret.vm] \in {SHUTOFF, CRASHED}

\* ------------------------------------------------------------------------
\* C34: the previous state handed back is a state the restore may target
\* ------------------------------------------------------------------------
\* the targets of the restoring transitions made so far
RestoreTargets ==
  UNION {{hist[v].restores[k] : k \in 1..Len(hist[v].restores)} : v \in VMs}

\* C34: the previous state returned by a successful Transition is one of
\* Running, Paused, PM-Suspended and Shutoff, so that the restoring
\* Transition(previousState, ...) of create is never made with a target that
\* is not allowed.
C34_RestoreTargetAllowed ==
  /\ \A v \in VMs :
       hist[v].down = "ok" => hist[v].former \in AllowedTargets
  /\ RestoreTargets \subseteq AllowedTargets

\* C34 witness: the domain was found crashed, the transition to Shutoff
\* succeeded and handed back Crashed, and the restoring transition to Crashed
\* was rejected as a target that is not allowed
C34_Witness ==
  \E v \in VMs :
    /\ hist[v].down = "ok" /\ hist[v].former = CRASHED
    /\ hist[v].restores = <<CRASHED>> /\ hist[v].restored = "failed"
    /\ failed /\ calls = <<>> /\ interf = 0 /\ faults = 0

\* what is handed back by a successful transition to Shutoff is the state
\* found, Shutoff for a domain that is shutting down and Running for one
\* that is blocked: Crashed is the only one the restore may not target
C34_FormerStates ==
  \A v \in VMs :
    hist[v].down = "ok" => hist[v].former \in AllowedTargets \cup {CRASHED}

\* ------------------------------------------------------------------------
\* C35: export changes one domain at a time
\* ------------------------------------------------------------------------
\* the domains that were brought down and whose restore was not attempted
AwaitingRestore ==
  {v \in VMs : hist[v].down = "ok" /\ hist[v].restores = <<>>}

\* at most one domain awaits its restore, and a domain is restored to the
\* state that was captured of it
OneAtATime ==
  /\ Cardinality(AwaitingRestore) <= 1
  /\ \A v \in VMs : hist[v].restores \in {<<>>, <<hist[v].former>>}

\* C35: in export the restoring transition of a domain is attempted before
\* the shutdown transition of the next one begins, so that never two domains
\* are brought down and not yet restored, and each restore is made on the
\* domain whose former state it captured.
C35_OneAtATime == build \in ExportBuilds => OneAtATime

\* C35 witness: two domains that had been running are both shut off, the
\* second one is being exported and no restore was attempted for either
C35_Witness ==
  /\ build = "export-block" /\ opc = "export" /\ idx = 2
  /\ AwaitingRestore = {vms[1], vms[2]} /\ vms[1] # vms[2]
  /\ \A v \in AwaitingRestore : hist[v].former = RUNNING /\ vmState[v] = SHUTOFF
  /\ interf = 0 /\ faults = 0

\* C35 witness, the restores: at the end both deferred closures restored the
\* last domain of the list, and the first one was left shut off
C35_LastRestoredTwiceWitness ==
  /\ build = "export-block" /\ Exited /\ Len(vms) = 2
  /\ hist[vms[1]].former = RUNNING /\ hist[vms[1]].restores = <<>>
  /\ Len(hist[vms[2]].restores) = 2
  /\ vmState[vms[1]] = SHUTOFF

\* the revision of exportRun whose closure is called in the loop body changes
\* one domain at a time
C35_ClosureOneAtATime == build = "export-closure" => OneAtATime

\* ------------------------------------------------------------------------
\* C36: the hops and the state-changing calls of a transition are bounded
\* ------------------------------------------------------------------------
\* the calls of operation op recorded
CallsOf(op) == {k \in 1..Len(calls) : calls[k].op = op}

\* the state-changing calls other than shutdown requests and destroys
HopCalls ==
  {k \in 1..Len(calls) : calls[k].op \notin {"Shutdown", "Destroy"}}

\* at most two state-changing calls, three shutdown requests and one destroy
BoundedCalls ==
  /\ Cardinality(HopCalls) <= 2
  /\ Cardinality(CallsOf("Shutdown")) <= ShutdownRounds
  /\ Cardinality(CallsOf("Destroy")) <= 1

\* C36: with no third-party interference a transition has at most one
\* intermediate hop under way (the call and the hop it makes: two nested
\* calls of Transition) and issues at most two state-changing calls, three
\* shutdown requests and one destroy.
C36_BoundedHops == (interf = 0 /\ stack # <<>>) => Len(stack) <= 2 /\ BoundedCalls

\* C36 witness: a domain that stays shutting down; every wait for Shutoff
\* timed out and returned without error, the hop to the target found the
\* domain shutting down again and waited in a call nested one deeper, up to
\* the depth explored, without a third party and without a failed query
C36_Witness ==
  /\ Len(stack) = MaxDepth /\ interf = 0 /\ faults = 0 /\ calls = <<>>
  /\ \A k \in 1..MaxDepth :
       /\ stack[k].vm = stack[1].vm
       /\ stack[k].observed = SHUTDOWN
       /\ stack[k].to = (IF k < MaxDepth THEN PAUSED ELSE SHUTOFF)
  /\ \A k \in 1..(MaxDepth - 2) : stack[k].pc = "sd_hop2"
  /\ stack[MaxDepth - 1].pc = "sd_hop1"
  /\ vmState[stack[1].vm] = SHUTDOWN

\* no one else acting and no query failing, the calls are bounded as said,
\* and a call that did not find the domain shutting down has one hop under
\* way at most
C36_BoundedUnlessShuttingDown ==
  (interf = 0 /\ faults = 0 /\ stack # <<>>) =>
    /\ BoundedCalls
    /\ stack[1].observed # SHUTDOWN => Len(stack) <= 2

\* ------------------------------------------------------------------------
\* C37: a domain is destroyed only when the caller asked for it
\* ------------------------------------------------------------------------
\* the forceShutdown argument of the call under way or just returned (the
\* calls it makes itself are given the same)
Forced == IF stack # <<>> THEN stack[1].force ELSE ret.force

\* C37: Destroy is issued only in a call of Transition whose forceShutdown
\* argument is true and whose target is Shutoff, after three shutdown
\* requests of that call were accepted and no poll saw Shutoff; with
\* forceShutdown false no Destroy is ever issued, in composed and nested
\* transitions as well.
C37_DestroyOnlyForced ==
  /\ \A k \in 1..Len(stack) :
       stack[k].pc = "destroy" =>
         /\ stack[k].force /\ stack[k].to = SHUTOFF
         /\ stack[k].requests = ShutdownRounds /\ stack[k].lastReq = "ok"
         /\ stack[k].polled \notin {"none", SHUTOFF}
         /\ stack[k].destroys = 0
  /\ (Returned /\ ret.destroys > 0) =>
       /\ ret.force /\ ret.to = SHUTOFF /\ ret.destroys = 1
       /\ ret.requests = ShutdownRounds /\ ret.polled # SHUTOFF
  /\ \A k \in CallsOf("Destroy") :
       /\ Forced
       /\ k > ShutdownRounds
       /\ \A j \in 1..ShutdownRounds :
            calls[k - j] = CallOf("Shutdown", calls[k].vm, "ok")
  /\ \A k \in 1..Len(stack) : stack[k].force = stack[1].force

\* C37 witness: a forced transition of a paused domain to Shutoff resumed it
\* and, the guest ignoring three shutdown requests, destroyed it
C37_Witness ==
  /\ TopReturned /\ ret.force /\ ret.to = SHUTOFF /\ ret.observed = PAUSED
  /\ ret.err = "nil" /\ interf = 0 /\ faults = 0
  /\ calls = <<CallOf("Resume", ret.vm, "ok"),
               CallOf("Shutdown", ret.vm, "ok"),
               CallOf("Shutdown", ret.vm, "ok"),
               CallOf("Shutdown", ret.vm, "ok"),
               CallOf("Destroy", ret.vm, "ok")>>
  /\ vmState[ret.vm] = SHUTOFF

\* C37 witness, the other side: without force the same transition gave up
\* after the three requests
C37_UnforcedWitness ==
  /\ TopReturned /\ ~ret.force /\ ret.to = SHUTOFF /\ ret.observed = PAUSED
  /\ ret.err = "GracefulShutdownTimedOut" /\ interf = 0 /\ faults = 0
  /\ Cardinality(CallsOf("Shutdown")) = ShutdownRounds
  /\ CallsOf("Destroy") = {}

\* create without --force never destroys a domain, in its restore step
\* neither
C37_UnforcedCreateNeverDestroys ==
  (build = "create" /\ ~flags.force) => CallsOf("Destroy") = {}

\* ------------------------------------------------------------------------
\* C38: clean keeps the k last snapshots of the listing
\* ------------------------------------------------------------------------
\* the snapshots the hypervisor still holds of the domain clean is at
StillHeld == {snaps[j].id : j \in 1..Len(snaps)}

\* the positions of the listing that clean keeps: the k last ones
KeptPositions ==
  {j \in 1..Len(cleanLog.listed) : j > Len(cleanLog.listed) - flags.keep}

\* the snapshots deleted of the domain clean is at
Deleted ==
  {cleanLog.store[j].id : j \in 1..Len(cleanLog.store)} \ StillHeld

\* C38: of n snapshots listed for a domain clean leaves min(k, n) at least:
\* the k last entries of the sorted listing are never deleted, whatever is
\* answered and whichever deletion fails; the j-th decision is about the
\* j-th entry of the listing, so that a declined or failed deletion leaves
\* its snapshot in place and no other one is deleted instead.
C38_KeepsLastK ==
  (build = "clean" /\ cleanLog.listed # <<>>) =>
    /\ \A j \in KeptPositions : cleanLog.listed[j].id \in StillHeld
    /\ Cardinality(StillHeld) >=
         (IF flags.keep < Len(cleanLog.listed)
          THEN flags.keep ELSE Len(cleanLog.listed))
    /\ \/ cleanLog.decisions = <<>>
       \/ Len(cleanLog.decisions) <= Len(cleanLog.listed) - flags.keep
    /\ \A j \in 1..Len(cleanLog.decisions) :
         /\ cleanLog.decisions[j].snap = cleanLog.listed[j]
         /\ cleanLog.decisions[j].res # "ok" =>
              cleanLog.listed[j].id \in StillHeld
    /\ Deleted =
         {cleanLog.decisions[j].snap.id :
            j \in {i \in 1..Len(cleanLog.decisions) :
                     cleanLog.decisions[i].res = "ok"}}

\* C38 witness: of three snapshots listed, one to keep, the removal of the
\* first was declined and the second was deleted: the first and the last
\* are left
C38_Witness ==
  /\ build = "clean" /\ flags.keep = 1 /\ Len(cleanLog.listed) = MaxSnaps
  /\ cleanLog.done = "returned" /\ Len(cleanLog.decisions) = 2
  /\ cleanLog.decisions[1].res = "declined"
  /\ cleanLog.decisions[2].res = "ok"
  /\ StillHeld = {cleanLog.listed[1].id, cleanLog.listed[3].id}

\* C38 witness, a failed deletion: the deletion of the first snapshot
\* failed and nothing was deleted of the domain
C38_FailedWitness ==
  /\ build = "clean" /\ flags.keep = 1 /\ Len(cleanLog.listed) = MaxSnaps
  /\ cleanLog.done = "returned" /\ Len(cleanLog.decisions) = 1
  /\ cleanLog.decisions[1].res = "error"
  /\ Deleted = {} /\ Cardinality(StillHeld) = MaxSnaps

\* ------------------------------------------------------------------------
\* C39: a state query that fails while the call polls
\* ------------------------------------------------------------------------
\* the last poll of the call with record f failed: GetState handed back the
\* zero state, and the state last seen is another one
PollFailed(f) == f.polled = NOSTATE /\ f.lastSeen # NOSTATE

\* what a call does after a failed poll in the shutdown rounds and in the
\* wait for a domain that is shutting down: it polls again while the time
\* allowed has not elapsed, and goes on to the next request, to the destroy
\* or to its return when it has
GoesOnAfterFailedPoll(f) ==
  CASE f.observed = RUNNING /\ f.to = SHUTOFF ->
         /\ f.pc \in {"sh_poll", "shutdown", "destroy"}
         /\ f.pc = "sh_poll" <=> f.elapsed <= MaxRoundDuration(f.timeout)
    [] f.observed = SHUTDOWN /\ f.to = SHUTOFF ->
         f.pc = "sd_poll" /\ f.elapsed <= TotalTimeout(f.timeout)
    [] OTHER -> TRUE

\* a call that returns after a failed poll did not return as one whose poll
\* saw Shutoff: the time allowed had elapsed, and the call returns from the
\* next request, from the destroy or with the timeout
TimedOutAfterFailedPoll ==
  (Returned /\ PollFailed(ret)) =>
    /\ ret.site \notin {140, 256}
    /\ (ret.observed = RUNNING /\ ret.to = SHUTOFF) =>
         ret.site \in {117, 123, 164, 166, 172}
    /\ (ret.observed = SHUTDOWN /\ ret.to = SHUTOFF) => ret.site = 271

\* C39: a state query that fails during polling, in the shutdown rounds, in
\* the wait for a domain that is shutting down and in the wait for a blocked
\* domain, is not taken for Shutoff and does not end the polling: the call
\* polls again or, the time allowed having elapsed, goes on as after any
\* other poll.
C39_FailedPollKeepsPolling ==
  /\ \A k \in 1..Len(stack) :
       PollFailed(stack[k]) =>
         /\ GoesOnAfterFailedPoll(stack[k])
         /\ stack[k].observed = BLOCKED =>
              /\ stack[k].pc = "bl_poll"
              /\ stack[k].elapsed <= TotalTimeout(stack[k].timeout)
  /\ TimedOutAfterFailedPoll
  /\ (Returned /\ PollFailed(ret) /\ ret.observed = BLOCKED) => ret.site = 453

\* C39 witness: the first poll of the wait for a blocked domain failed;
\* the wait is over although the timeout has not elapsed and the domain is
\* still blocked, and Transition was called for the target
C39_Witness ==
  /\ Len(stack) = 2 /\ PollFailed(stack[1])
  /\ stack[1].observed = BLOCKED /\ stack[1].pc = "bl_hop"
  /\ stack[1].timeout = MaxTimeout /\ stack[1].elapsed = PollTime(1)
  /\ stack[1].elapsed <= TotalTimeout(stack[1].timeout)
  /\ stack[2].to = stack[1].to /\ stack[2].pc = "start"
  /\ vmState[stack[1].vm] = BLOCKED /\ interf = 0

\* in the shutdown rounds and in the wait for a domain that is shutting down
\* a failed poll is not taken for Shutoff and the call goes on polling under
\* the rules of any other poll
C39_FailedPollIsNotShutoff ==
  /\ \A k \in 1..Len(stack) :
       PollFailed(stack[k]) => GoesOnAfterFailedPoll(stack[k])
  /\ TimedOutAfterFailedPoll

\* a failed poll in the shutdown rounds, after which the call polled on
C39_RoundsWitness ==
  /\ Len(stack) = 1 /\ PollFailed(stack[1]) /\ stack[1].pc = "sh_poll"
  /\ stack[1].observed = RUNNING /\ stack[1].timeout = MaxTimeout

====
